---- MODULE Spec2Model ----
(***************************************************************************)
(* Verification model of the routing core of aerospike-client-go:          *)
(*   partitions.go  Partitions / partitionMap (replica grid, regimes,      *)
(*                  clone, setReplicaCount, validate)                      *)
(*   error.go       AerospikeError (wrap chain, Matches, in-doubt flag,    *)
(*                  chainErrors, constant errors)                          *)
(* Go slices and pointers are modelled by explicit heaps, so that aliasing *)
(* (two slices sharing one backing array, two references to one error) is  *)
(* something the model can exhibit.                                        *)
(***************************************************************************)
EXTENDS Integers, Sequences, FiniteSets, TLC

(***************************************************************************)
(* Bounds of the model.                                                    *)
(***************************************************************************)
\* number of partitions per namespace (4096 in the client, scaled down)
_PARTITIONS == 2
\* largest replica count handed to newPartitions / setReplicaCount
MaxReplicas == 2
\* number of Partitions objects alive at once (program variables holding one)
MaxParts == 4
\* largest regime value a server reports
MaxRegime == 2
\* number of slot and regime writes followed after a clone
MaxWrites == 2
\* number of error values created besides the package-level constants
MaxErrs == 3
\* number of error values the in-doubt specification creates
MaxDoubtErrs == 2

NIL == "nil"
Nodes == {"n1", "n2"}
Namespaces == {"test", "bar"}
Handles == 1..MaxParts
\* partition counts handed to newPartitions
PartitionCounts == {_PARTITIONS - 1, _PARTITIONS}
\* backing arrays of []*Node rows and []int regimes
ArrIds == 1..((MaxParts + 1) * (MaxReplicas + 1))

VARIABLES
  mem,      \* heap of backing arrays: ArrIds -> sequence (<<>> = not allocated)
  parts,    \* heap of Partitions objects, one per handle
  pm,       \* partitionMap.m: namespace -> handle (0 = no entry)
  cloneOf,  \* history: the handle a Partitions was cloned from (0 = none)
  op,       \* history: the operation of the last step and its arguments
  writes,   \* history: number of slot and regime writes made so far
  verr,     \* the Error returned by the last validate() (outermost first)
  eh,       \* heap of error values: ErrIds -> error object
  doubtBy,  \* history: what last decided each error's InDoubt flag
  eop,      \* history: the error operation of the last step, its arguments and result
  wr,       \* the tend routine's private Partitions and the namespace it is for
  rd,       \* the *Partitions a command got from the map (0 = nil)
  whole,    \* history: the value each Partitions had when set published it
  tick,     \* history: the report the last tend tick applied (<<>>: none yet)
  newPm,    \* the map partitionMap.clone() returned: namespace -> handle
  xr,       \* a Xor128Rand, the slice handed to its Read and what Read returned
  guard,    \* a Guard[T], the values its callbacks were passed
  hist      \* a Histogram[int] and the values added to it

pvars == <<mem, parts, pm, cloneOf, op, writes, verr>>
evars == <<eh, doubtBy, eop>>
tvars == <<wr, rd, whole, tick, newPm>>
lvars == <<xr, guard, hist>>
vars == <<pvars, evars, tvars, lvars>>

(***************************************************************************)
(* Helpers over the heap.                                                  *)
(***************************************************************************)
Min(S) == CHOOSE x \in S : \A y \in S : x <= y

Fill(n, v) == [i \in 1..n |-> v]

\* make([]T, n): a fresh zeroed backing array at the lowest free address
make(m, n, zero) ==
  LET a == Min({x \in ArrIds : m[x] = <<>>})
  IN  [mem |-> [m EXCEPT ![a] = Fill(n, zero)], ref |-> a]

\* a Partitions variable that holds no object
NoPartitions == [live |-> FALSE, arr |-> <<>>, len |-> 0, SCMode |-> FALSE, regimes |-> 0]

\* the rows visible through p.Replicas (the slice, not its backing array)
Rows(p) == SubSeq(p.arr, 1, p.len)

\* arrays reachable from a Partitions object, hidden capacity included
Reach(p) ==
  IF p.live THEN ({p.arr[i] : i \in 1..Len(p.arr)} \cup {p.regimes}) \ {0} ELSE {}

\* the references a Partitions object holds, in field order
Refs(p) ==
  IF p.live THEN SelectSeq(p.arr \o <<p.regimes>>, LAMBDA a : a # 0) ELSE <<>>

RECURSIVE AllRefs(_, _)
AllRefs(ps, h) == IF h > MaxParts THEN <<>> ELSE Refs(ps[h]) \o AllRefs(ps, h + 1)

RECURSIVE Dedup(_, _)
Dedup(seq, seen) ==
  IF seq = <<>> THEN <<>>
  ELSE IF Head(seq) \in seen THEN Dedup(Tail(seq), seen)
  ELSE <<Head(seq)>> \o Dedup(Tail(seq), seen \cup {Head(seq)})

\* the garbage collector: arrays no object reaches are gone, and the live
\* ones are laid out in the order the objects reach them (an address is not
\* observable in Go, only whether two references are the same)
Collect(ps, m) ==
  LET order   == Dedup(AllRefs(ps, 1), {})
      rank(a) == IF a = 0 THEN 0 ELSE CHOOSE i \in 1..Len(order) : order[i] = a
  IN  [parts |-> [h \in Handles |->
                    IF ps[h].live
                    THEN [ps[h] EXCEPT !.arr = [i \in 1..Len(ps[h].arr) |-> rank(ps[h].arr[i])],
                                       !.regimes = rank(ps[h].regimes)]
                    ELSE ps[h]],
       mem   |-> [a \in ArrIds |-> IF a <= Len(order) THEN m[order[a]] ELSE <<>>]]

\* a row hidden in the spare capacity below index k still holds a node
HiddenNode(p, m, k) ==
  \E i \in (p.len + 1)..k : i <= Len(p.arr) /\ p.arr[i] # 0 /\
     \E j \in 1..Len(m[p.arr[i]]) : m[p.arr[i]][j] # NIL

\* what a reader sees through a Partitions reference
View(ps, m, h) ==
  [Replicas |-> [r \in 1..ps[h].len |-> m[ps[h].arr[r]]],
   SCMode   |-> ps[h].SCMode,
   regimes  |-> IF ps[h].regimes = 0 THEN <<>> ELSE m[ps[h].regimes]]

(***************************************************************************)
(* Partitions (partitions.go).  Row 1 of a grid is Replicas[0], the master *)
(* row; partition p of the client is index p + 1 here.                     *)
(***************************************************************************)
\* the loop "replicas[i] = make([]*Node, partitionCount)"
RECURSIVE makeRows(_, _, _)
makeRows(m, count, n) ==
  IF count = 0 THEN [mem |-> m, refs |-> <<>>]
  ELSE LET one  == make(m, n, NIL)
           rest == makeRows(one.mem, count - 1, n)
       IN  [mem |-> rest.mem, refs |-> <<one.ref>> \o rest.refs]

newPartitions(m, partitionCount, replicaCount, cpMode) ==
  LET rows == makeRows(m, replicaCount, partitionCount)
      reg  == make(rows.mem, partitionCount, 0)
  IN  [mem |-> reg.mem,
       obj |-> [live |-> TRUE, arr |-> rows.refs, len |-> replicaCount,
                SCMode |-> cpMode, regimes |-> reg.ref]]

\* Go's append on the outer slice: in place while capacity lasts, else a
\* doubled backing array holding the visible elements
append(arr, len, x) ==
  IF len < Len(arr)
  THEN [arr |-> [arr EXCEPT ![len + 1] = x], len |-> len + 1]
  ELSE LET newcap == IF Len(arr) = 0 THEN 1 ELSE 2 * Len(arr)
       IN  [arr |-> [i \in 1..newcap |->
                       IF i <= len THEN arr[i] ELSE IF i = len + 1 THEN x ELSE 0],
            len |-> len + 1]

\* the loop "p.Replicas = append(p.Replicas, make([]*Node, _PARTITIONS))"
RECURSIVE extend(_, _, _)
extend(m, p, replicaCount) ==
  IF p.len >= replicaCount THEN [mem |-> m, obj |-> p]
  ELSE LET row == make(m, _PARTITIONS, NIL)
           sl  == append(p.arr, p.len, row.ref)
       IN  extend(row.mem, [p EXCEPT !.arr = sl.arr, !.len = sl.len], replicaCount)

\* a resize that re-slices into spare capacity instead of appending fresh rows
setReplicaCountReslice(m, p, replicaCount) ==
  IF replicaCount <= Len(p.arr) /\ \A i \in 1..replicaCount : p.arr[i] # 0
  THEN [mem |-> m, obj |-> [p EXCEPT !.len = replicaCount]]
  ELSE extend(m, p, replicaCount)

setReplicaCount(m, p, replicaCount) ==
  IF p.len < replicaCount
  THEN extend(m, p, replicaCount)
  ELSE [mem |-> m, obj |-> [p EXCEPT !.len = replicaCount]]

\* the loop "r := make(...); copy(r, p.Replicas[i]); replicas[i] = r"
RECURSIVE cloneRows(_, _)
cloneRows(m, rows) ==
  IF rows = <<>> THEN [mem |-> m, refs |-> <<>>]
  ELSE LET one  == make(m, Len(m[Head(rows)]), NIL)
           cp   == [one.mem EXCEPT ![one.ref] = m[Head(rows)]]
           rest == cloneRows(cp, Tail(rows))
       IN  [mem |-> rest.mem, refs |-> <<one.ref>> \o rest.refs]

\* a clone that hands back its receiver's slices
cloneAlias(m, p) == [mem |-> m, obj |-> p]

\* a clone that copies the outer slice only: the rows and regimes are shared
cloneShallow(m, p) ==
  [mem |-> m, obj |-> [p EXCEPT !.arr = Rows(p)]]

clone(m, p) ==
  LET rows == cloneRows(m, Rows(p))
      reg  == make(rows.mem, Len(m[p.regimes]), 0)
  IN  [mem |-> [reg.mem EXCEPT ![reg.ref] = m[p.regimes]],
       obj |-> [live |-> TRUE, arr |-> rows.refs, len |-> p.len,
                SCMode |-> p.SCMode, regimes |-> reg.ref]]

(***************************************************************************)
(* partitionMap (partitions.go): a sync.Map from namespace to *Partitions. *)
(***************************************************************************)
get(m, key) == [value |-> m[key], ok |-> m[key] # 0]

set(m, key, value) == [m EXCEPT ![key] = value]

delete(m, key) == [m EXCEPT ![key] = 0]

len(m) == Cardinality({ns \in Namespaces : m[ns] # 0})

Published(h) == \E ns \in Namespaces : pm[ns] = h

(***************************************************************************)
(* Errors (error.go).  An error value lives at an address of the error     *)
(* heap; kind "ae" is *AerospikeError, "const" is *constAerospikeError (a  *)
(* package-level constant), "foreign" is any other Go error (it has no     *)
(* result code; its wrapped field is what its Unwrap() returns).           *)
(* Stack frames are not modelled: nothing decided here reads them.         *)
(***************************************************************************)
Msg(fmt, ns, a, b) == [fmt |-> fmt, ns |-> ns, a |-> a, b |-> b]

\* types.ResultCodeToString(code): the default message of a result code
ResultCodeToString(code) == Msg("ResultCodeToString", code, 0, 0)

NoMsg == Msg("", "", 0, 0)

\* grpc: for an error of another package, the value it is (context or grpc
\* package variable) or the gRPC status code it carries; "" when neither
FreeErr == [kind |-> "free", wrapped |-> 0, msg |-> NoMsg, Node |-> NIL,
            ResultCode |-> "OK", InDoubt |-> FALSE, Iteration |-> 0, grpc |-> ""]

\* &AerospikeError{}: the zero value
ZeroErr == [FreeErr EXCEPT !.kind = "ae"]

newConstError(code, msg) ==
  [FreeErr EXCEPT !.kind = "const", !.msg = msg, !.ResultCode = code]

\* the package-level constant errors of the model, at addresses 1..Len
Sentinels ==
  << newConstError("INVALID_CLUSTER_PARTITION_MAP", Msg("Partition map errors normally occur", "", 0, 0)),
     newConstError("TIMEOUT", Msg("command execution timed out on client", "", 0, 0)),
     newConstError("TIMEOUT", Msg("network timeout", "", 0, 0)),
     newConstError("SERVER_NOT_AVAILABLE", ResultCodeToString("SERVER_NOT_AVAILABLE")),
     newConstError("NETWORK_ERROR", ResultCodeToString("NETWORK_ERROR")),
     newConstError("INVALID_NODE_ERROR", Msg("cluster is empty", "", 0, 0)),
     newConstError("NO_AVAILABLE_CONNECTIONS_TO_NODE", Msg("connection pool is empty", "", 0, 0)),
     newConstError("NO_AVAILABLE_CONNECTIONS_TO_NODE", Msg("Connection pool is exhausted", "", 0, 0)),
     newConstError("NO_AVAILABLE_CONNECTIONS_TO_NODE", Msg("too many connections are trying to open at once", "", 0, 0)) >>

ErrInvalidPartitionMap == 1
ErrTimeout == 2
ErrNetTimeout == 3
ErrServerNotAvailable == 4
ErrNetwork == 5
ErrClusterIsEmpty == 6
ErrConnectionPoolEmpty == 7
ErrConnectionPoolExhausted == 8
ErrTooManyOpeningConnections == 9

SentinelIds == 1..Len(Sentinels)
\* MaxErrs errors for the steps that make errors, and one more address for
\* the result of a chainErrors whose arguments already fill them
ErrIds == 1..(Len(Sentinels) + MaxErrs + 1)

\* the error heap right after package initialisation
InitHeap(ids) == [i \in ids |-> IF i \in SentinelIds THEN Sentinels[i] ELSE FreeErr]

FreeErrIds(e) == {i \in DOMAIN e : e[i].kind = "free"}

\* a new error object at the lowest free address
allocErr(e, rec) ==
  LET r == Min(FreeErrIds(e)) IN [eh |-> [e EXCEPT ![r] = rec], ref |-> r]

newError(e, code, msg) ==
  allocErr(e, [ZeroErr EXCEPT !.msg = msg, !.ResultCode = code])

wrap(e, r, inner) == [e EXCEPT ![r].wrapped = inner]

newErrorAndWrap(e, inner, code, msg) ==
  LET ne == newError(e, code, msg) IN [eh |-> wrap(ne.eh, ne.ref, inner), ref |-> ne.ref]

newCommonError(e, inner) ==
  LET ne == newError(e, "COMMON_ERROR", ResultCodeToString("COMMON_ERROR"))
  IN  [eh |-> wrap(ne.eh, ne.ref, inner), ref |-> ne.ref]

\* (*AerospikeError).As(target): succeeds only for a *AerospikeError target
As(targetType) == targetType = "*AerospikeError"

\* errors.As(err, &ae) with ae a *AerospikeError: walks the Unwrap chain for
\* the first error assignable to *AerospikeError or whose As method accepts
\* the **AerospikeError target; 0 when there is none
RECURSIVE errorsAs(_, _)
errorsAs(e, r) ==
  IF r = 0 THEN 0
  ELSE IF e[r].kind = "ae" THEN r
  ELSE IF e[r].kind = "const" /\ As("**AerospikeError") THEN r
  ELSE errorsAs(e, e[r].wrapped)

\* a Matches that looks at the error and the error it wraps, no further
MatchesOneLevel(e, r, rcs) ==
  IF r = 0 \/ rcs = {} THEN FALSE
  ELSE IF e[r].ResultCode \in rcs THEN TRUE
  ELSE LET ae == errorsAs(e, e[r].wrapped)
       IN  e[r].wrapped # 0 /\ ae # 0 /\ e[ae].ResultCode \in rcs

RECURSIVE Matches(_, _, _)
Matches(e, r, rcs) ==
  IF r = 0 \/ rcs = {} THEN FALSE
  ELSE IF e[r].ResultCode \in rcs THEN TRUE
  ELSE LET ae == errorsAs(e, e[r].wrapped)
       IN  IF e[r].wrapped # 0 /\ ae # 0 THEN Matches(e, ae, rcs) ELSE FALSE

Unwrap(e, r) == e[r].wrapped

IsInDoubt(e, r) == e[r].InDoubt

\* (*constAerospikeError).err(): a private copy of the constant
err(e, c) ==
  LET v == allocErr(e, [e[c] EXCEPT !.kind = "ae"])
  IN  [eh |-> wrap(v.eh, v.ref, 0), ref |-> v.ref]

\* inner implements the Error interface
IsError(e, r) == e[r].kind \in {"ae", "const"}

\* a chainErrors that hangs inner on the outer error itself
chainErrorsInPlace(e, outer, inner) ==
  IF inner = 0 /\ outer = 0 THEN [eh |-> e, ref |-> 0]
  ELSE IF inner = 0 THEN [eh |-> e, ref |-> outer]
  ELSE IF outer = 0 THEN
    IF IsError(e, inner) THEN [eh |-> e, ref |-> inner]
    ELSE newCommonError(e, inner)
  ELSE [eh |-> [e EXCEPT ![outer].wrapped = inner], ref |-> outer]

\* a chainErrors that copies the outer error and forgets to hang inner on it
chainErrorsNoWrap(e, outer, inner) ==
  IF inner = 0 /\ outer = 0 THEN [eh |-> e, ref |-> 0]
  ELSE IF inner = 0 THEN [eh |-> e, ref |-> outer]
  ELSE IF outer = 0 THEN
    IF IsError(e, inner) THEN [eh |-> e, ref |-> inner]
    ELSE newCommonError(e, inner)
  ELSE allocErr(e, [e[outer] EXCEPT !.kind = "ae"])

chainErrors(e, outer, inner) ==
  IF inner = 0 /\ outer = 0 THEN [eh |-> e, ref |-> 0]
  ELSE IF inner = 0 THEN [eh |-> e, ref |-> outer]
  ELSE IF outer = 0 THEN
    IF IsError(e, inner) THEN [eh |-> e, ref |-> inner]
    ELSE newCommonError(e, inner)
  ELSE LET ae == allocErr(e, [e[outer] EXCEPT !.kind = "ae"])
       IN  [eh |-> [ae.eh EXCEPT ![ae.ref].wrapped = inner], ref |-> ae.ref]

\* a setInDoubt that forgets to look at the command class
setInDoubtAnyClass(e, r, isRead, commandWasSent) ==
  IF commandWasSent THEN [e EXCEPT ![r].InDoubt = TRUE] ELSE e

setInDoubt(e, r, isRead, commandWasSent) ==
  IF ~isRead /\ commandWasSent THEN [e EXCEPT ![r].InDoubt = TRUE] ELSE e

setNode(e, r, node) == [e EXCEPT ![r].Node = node]

markInDoubt(e, r, v) == [e EXCEPT ![r].InDoubt = v]

markInDoubtIf(e, r, inDoubt) == [e EXCEPT ![r].InDoubt = inDoubt]

\* types.ResultCode(status) for a status the server reports (0 and above)
ServerResultCode(status) ==
  CASE status = 0 -> "OK"
    [] status = 1 -> "SERVER_ERROR"
    [] status = 2 -> "KEY_NOT_FOUND_ERROR"
    [] OTHER      -> "SERVER_RESULT_CODE"

\* the switch of newGrpcStatusError over the negative statuses
ClientResultCode(status) ==
  CASE status = -16 -> "BATCH_FAILED"
    [] status = -15 -> "NO_RESPONSE"
    [] status = -12 -> "MAX_ERROR_RATE"
    [] status = -11 -> "MAX_RETRIES_EXCEEDED"
    [] status = -10 -> "SERIALIZE_ERROR"
    [] status = -8  -> "SERVER_NOT_AVAILABLE"
    [] status = -7  -> "NO_AVAILABLE_CONNECTIONS_TO_NODE"
    [] status = -5  -> "QUERY_TERMINATED"
    [] status = -4  -> "SCAN_TERMINATED"
    [] status = -3  -> "INVALID_NODE_ERROR"
    [] status = -2  -> "PARSE_ERROR"
    [] status = -1  -> "COMMON_ERROR"
    [] OTHER        -> "OK"

newGrpcStatusError(e, status, inDoubt) ==
  LET ne == IF status >= 0
            THEN newError(e, ServerResultCode(status), ResultCodeToString(ServerResultCode(status)))
            ELSE IF status = -9
            THEN newError(e, "SERVER_ERROR", Msg("Server ASYNC_QUEUE_FULL", "", 0, 0))
            ELSE newError(e, ClientResultCode(status), ResultCodeToString(ClientResultCode(status)))
  IN  [eh |-> markInDoubt(ne.eh, ne.ref, inDoubt), ref |-> ne.ref]

newNodeError(e, node, r) ==
  IF r = 0 THEN [eh |-> e, ref |-> 0]
  ELSE LET ae  == errorsAs(e, r)
           res == allocErr(e, [(IF ae = 0 THEN ZeroErr ELSE e[ae]) EXCEPT !.kind = "ae", !.Node = node])
       IN  [eh |-> wrap(res.eh, res.ref, r), ref |-> res.ref]

\* the message newError is given: the default one when there is none
messageOf(code, messages) ==
  IF messages = <<>> THEN ResultCodeToString(code) ELSE messages[1]

\* the gRPC status codes (google.golang.org/grpc/codes) but OK
StatusCodes ==
  {"Canceled", "Unknown", "InvalidArgument", "DeadlineExceeded", "NotFound",
   "AlreadyExists", "PermissionDenied", "ResourceExhausted", "FailedPrecondition",
   "Aborted", "OutOfRange", "Unimplemented", "Internal", "Unavailable", "DataLoss",
   "Unauthenticated"}

\* status.Code(e), then status.Convert(e).Code() when that is Unknown: OK for
\* nil, the code of an error that carries a status, Unknown for any other
statusCode(e, r) ==
  IF r = 0 THEN "OK"
  ELSE IF e[r].kind = "foreign" /\ e[r].grpc \in StatusCodes THEN e[r].grpc
  ELSE "Unknown"

\* a mapping that wraps every error it is given, a GRPC_ERROR included
newGrpcErrorRewrap(e, r, messages) ==
  IF r = 0 THEN [eh |-> e, ref |-> 0]
  ELSE newErrorAndWrap(e, r, "GRPC_ERROR", messageOf("GRPC_ERROR", messages))

newGrpcError(e, r, messages) ==
  IF r # 0 /\ IsError(e, r) /\ e[r].ResultCode = "GRPC_ERROR" THEN [eh |-> e, ref |-> r]
  ELSE IF r # 0 /\ e[r].grpc = "context.DeadlineExceeded" THEN err(e, ErrNetTimeout)
  ELSE IF r # 0 /\ e[r].grpc = "grpc.ErrClientConnTimeout" THEN err(e, ErrNetTimeout)
  ELSE IF r # 0 /\ e[r].grpc = "grpc.ErrServerStopped" THEN err(e, ErrServerNotAvailable)
  ELSE LET code == statusCode(e, r)
           new(rc) == newError(e, rc, messageOf(rc, messages))
       IN  CASE code = "OK"                 -> [eh |-> e, ref |-> 0]
             [] code = "Canceled"           -> err(e, ErrNetTimeout)
             [] code = "InvalidArgument"    -> new("PARAMETER_ERROR")
             [] code = "DeadlineExceeded"   -> err(e, ErrNetTimeout)
             [] code = "NotFound"           -> new("SERVER_NOT_AVAILABLE")
             [] code = "PermissionDenied"   -> new("FAIL_FORBIDDEN")
             [] code = "ResourceExhausted"  -> new("QUOTA_EXCEEDED")
             [] code = "FailedPrecondition" -> new("PARAMETER_ERROR")
             [] code = "Aborted"            -> newError(e, "SERVER_ERROR", ResultCodeToString("SERVER_ERROR"))
             [] code = "OutOfRange"         -> new("PARAMETER_ERROR")
             [] code = "Unimplemented"      -> new("SERVER_NOT_AVAILABLE")
             [] code = "Internal"           -> new("SERVER_ERROR")
             [] code = "Unavailable"        -> new("SERVER_NOT_AVAILABLE")
             [] code = "DataLoss"           -> err(e, ErrNetwork)
             [] code = "Unauthenticated"    -> new("NOT_AUTHENTICATED")
             [] OTHER -> newErrorAndWrap(e, r, "GRPC_ERROR", messageOf("GRPC_ERROR", messages))

\* partition is rendered into the message only
newInvalidNodeError(e, clusterSize, partition) ==
  IF clusterSize = 0 THEN err(e, ErrClusterIsEmpty)
  ELSE newErrorAndWrap(e, 0, "INVALID_NODE_ERROR",
                       Msg("Node not found for partition", "", partition, 0))

\* an Is that compares the result codes only
IsByCode(e, a, t) ==
  IF a = 0 \/ t = 0 THEN FALSE
  ELSE IF e[t].kind \notin {"ae", "const"} THEN FALSE
  ELSE e[a].ResultCode = e[t].ResultCode

\* (*AerospikeError).Is(t) on the error a (0: a nil receiver)
Is(e, a, t) ==
  IF a = 0 \/ t = 0 THEN FALSE
  ELSE IF e[t].kind \notin {"ae", "const"} THEN FALSE
  ELSE LET res == /\ e[a].ResultCode = e[t].ResultCode
                  /\ (e[a].Node = e[t].Node \/ e[t].Node = NIL)
       IN  IF e[t].InDoubt THEN res /\ (e[a].InDoubt = e[t].InDoubt) ELSE res

\* the result codes of the Aerospike errors on the Unwrap chain from r
RECURSIVE ChainCodes(_, _)
ChainCodes(e, r) ==
  IF r = 0 THEN {}
  ELSE (IF IsError(e, r) THEN {e[r].ResultCode} ELSE {}) \cup ChainCodes(e, e[r].wrapped)

(***************************************************************************)
(* partitionMap.validate.  The errors it builds are new and reachable only *)
(* from its result, so it runs on a heap of its own that holds the         *)
(* constants; the result is read back as the chain of codes and messages.  *)
(***************************************************************************)
\* the most errors one validate() allocates: a newError and a chainErrors
\* copy per message, and the err() copy with its chainErrors copy
ValidateErrIds ==
  1..(Len(Sentinels) + 2 * Cardinality(Namespaces) * (MaxReplicas + 3) + 2)

\* len(partition.regimes), nil included
regimesLen(m, p) == IF p.regimes = 0 THEN 0 ELSE Len(m[p.regimes])

\* a scan of a row that starts after its first slot
notDefinedFromSecond(row) ==
  SelectSeq([i \in 1..Len(row) |-> i - 1], LAMBDA i : i > 0 /\ row[i + 1] = NIL)

\* the partition indexes appended for a row: those whose node is nil
notDefined(row) ==
  SelectSeq([i \in 1..Len(row) |-> i - 1], LAMBDA i : row[i + 1] = NIL)

\* errs = chainErrors(newError(types.COMMON_ERROR, msg), errs)
addError(st, msg) ==
  LET ne == newError(st.eh, "COMMON_ERROR", msg)
      ce == chainErrors(ne.eh, ne.ref, st.errs)
  IN  [st EXCEPT !.eh = ce.eh, !.errs = ce.ref]

\* for replica, partitionNodes := range partition.Replicas, from row r on
RECURSIVE validateRows(_, _, _, _, _)
validateRows(st, m, p, nsName, r) ==
  IF r > p.len THEN st
  ELSE LET partitionNodes == m[p.arr[r]]
           s1 == IF Len(partitionNodes) # _PARTITIONS
                 THEN addError(st, Msg("Wrong number of partitions", nsName, r - 1,
                                       Len(partitionNodes)))
                 ELSE st
           s2 == IF r - 1 = 0
                 THEN [s1 EXCEPT !.master[nsName] = @ \o notDefined(partitionNodes)]
                 ELSE [s1 EXCEPT !.replica[nsName] = @ \o notDefined(partitionNodes)]
       IN  validateRows(s2, m, p, nsName, r + 1)

\* the callback of pm.iterate over the namespaces in the order of the Range
RECURSIVE validateIterate(_, _, _, _, _)
validateIterate(st, m, ps, pmap, order) ==
  IF order = <<>> THEN st
  ELSE LET nsName == Head(order)
           p  == ps[pmap[nsName]]
           s1 == IF regimesLen(m, p) # _PARTITIONS
                 THEN addError(st, Msg("Wrong number of regimes", nsName, _PARTITIONS,
                                       regimesLen(m, p)))
                 ELSE st
       IN  validateIterate(validateRows(s1, m, p, nsName, 1), m, ps, pmap, Tail(order))

\* for nsName, partitionList := range masterNodePartitionNotDefined
RECURSIVE reportMaster(_, _)
reportMaster(st, order) ==
  IF order = <<>> THEN st
  ELSE LET nsName == Head(order)
           s1 == IF st.master[nsName] # <<>>
                 THEN addError(st, Msg("Master partition nodes not defined", nsName,
                                       Len(st.master[nsName]), _PARTITIONS))
                 ELSE st
       IN  reportMaster(s1, Tail(order))

\* a validate that leaves the replica rows out of its report
reportReplicaNone(st, order) == st

\* for nsName, partitionList := range replicaNodePartitionNotDefined
RECURSIVE reportReplica(_, _)
reportReplica(st, order) ==
  IF order = <<>> THEN st
  ELSE LET nsName == Head(order)
           s1 == IF st.replica[nsName] # <<>>
                 THEN addError(st, Msg("Replica partition nodes not defined", nsName,
                                       Len(st.replica[nsName]), 0))
                 ELSE st
       IN  reportReplica(s1, Tail(order))

\* order, mOrder, rOrder: the orders in which the three ranges visit their keys
validate(m, ps, pmap, order, mOrder, rOrder) ==
  LET s0 == [eh |-> InitHeap(ValidateErrIds), errs |-> 0,
             master |-> [ns \in Namespaces |-> <<>>],
             replica |-> [ns \in Namespaces |-> <<>>]]
      s1 == validateIterate(s0, m, ps, pmap, order)
  IN  IF \/ s1.errs # 0
         \/ \E ns \in Namespaces : s1.master[ns] # <<>>
         \/ \E ns \in Namespaces : s1.replica[ns] # <<>>
      THEN LET s3 == reportReplica(reportMaster(s1, mOrder), rOrder)
               e  == err(s3.eh, ErrInvalidPartitionMap)
           IN  chainErrors(e.eh, e.ref, s3.errs)
      ELSE [eh |-> s1.eh, ref |-> 0]

\* the codes and messages of the errors on the Unwrap chain from r, outermost first
RECURSIVE ChainOf(_, _)
ChainOf(e, r) ==
  IF r = 0 THEN <<>>
  ELSE <<[ResultCode |-> e[r].ResultCode, msg |-> e[r].msg]>> \o ChainOf(e, e[r].wrapped)

\* the orders in which a range may visit the keys S
Orders(S) ==
  {o \in [1..Cardinality(S) -> S] : \A i, j \in 1..Cardinality(S) : o[i] = o[j] => i = j}

(***************************************************************************)
(* Steps of the program on Partitions objects and the map.                 *)
(***************************************************************************)
NoOp == [name |-> "init", h |-> 0, k |-> 0, p |-> 0, v |-> NIL]

\* h = newPartitions(n, r, sc), h a variable whose old value is not published
DoNewPartitions(h, n, r, sc) ==
  /\ ~Published(h)
  /\ LET res == newPartitions(mem, n, r, sc)
         gc  == Collect([parts EXCEPT ![h] = res.obj], res.mem)
     IN  /\ parts' = gc.parts
         /\ mem' = gc.mem
  /\ cloneOf' = [g \in Handles |-> IF g = h \/ cloneOf[g] = h THEN 0 ELSE cloneOf[g]]
  /\ op' = [NoOp EXCEPT !.name = "newPartitions", !.h = h]
  /\ verr' = <<>>
  /\ UNCHANGED <<evars, tvars, lvars>>
  /\ UNCHANGED writes
  /\ UNCHANGED pm

DoSetReplicaCount(h, k) ==
  /\ parts[h].live
  /\ LET res == setReplicaCount(mem, parts[h], k)
         gc  == Collect([parts EXCEPT ![h] = res.obj], res.mem)
     IN  /\ parts' = gc.parts
         /\ mem' = gc.mem
  /\ op' = [NoOp EXCEPT !.name = "setReplicaCount", !.h = h, !.k = k, !.p = parts[h].len,
                         !.v = IF HiddenNode(parts[h], mem, k) THEN "stale" ELSE NIL]
  /\ verr' = <<>>
  /\ UNCHANGED <<evars, tvars, lvars>>
  /\ UNCHANGED writes
  /\ UNCHANGED <<pm, cloneOf>>

\* dst = src.clone(), dst a variable whose old value is not published
DoClone(src, dst) ==
  /\ src # dst
  /\ parts[src].live
  /\ ~Published(dst)
  /\ LET res == clone(mem, parts[src])
         gc  == Collect([parts EXCEPT ![dst] = res.obj], res.mem)
     IN  /\ parts' = gc.parts
         /\ mem' = gc.mem
  /\ cloneOf' = [g \in Handles |-> IF g = dst THEN src
                                   ELSE IF cloneOf[g] = dst THEN 0 ELSE cloneOf[g]]
  /\ op' = [NoOp EXCEPT !.name = "clone", !.h = dst, !.k = src]
  /\ verr' = <<>>
  /\ UNCHANGED <<evars, tvars, lvars>>
  /\ UNCHANGED writes
  /\ UNCHANGED pm

\* parts[h].Replicas[r][p] = node
WriteSlot(h, r, p, node) ==
  /\ parts[h].live
  /\ r \in 1..parts[h].len
  /\ p \in 1..Len(mem[parts[h].arr[r]])
  /\ mem' = [mem EXCEPT ![parts[h].arr[r]][p] = node]
  /\ op' = [NoOp EXCEPT !.name = "write", !.h = h]
  /\ verr' = <<>>
  /\ UNCHANGED <<evars, tvars, lvars>>
  /\ UNCHANGED <<parts, pm, cloneOf>>

\* parts[h].regimes[p] = v
WriteRegime(h, p, v) ==
  /\ parts[h].live
  /\ p \in 1..Len(mem[parts[h].regimes])
  /\ mem' = [mem EXCEPT ![parts[h].regimes][p] = v]
  /\ op' = [NoOp EXCEPT !.name = "writeRegime", !.h = h]
  /\ verr' = <<>>
  /\ UNCHANGED <<evars, tvars, lvars>>
  /\ UNCHANGED <<parts, pm, cloneOf>>

DoSet(ns, h) ==
  /\ parts[h].live
  /\ pm' = set(pm, ns, h)
  /\ op' = [NoOp EXCEPT !.name = "set", !.h = h]
  /\ verr' = <<>>
  /\ UNCHANGED <<evars, tvars, lvars>>
  /\ UNCHANGED writes
  /\ UNCHANGED <<mem, parts, cloneOf>>

DoDelete(ns) ==
  /\ pm[ns] # 0
  /\ pm' = delete(pm, ns)
  /\ op' = [NoOp EXCEPT !.name = "delete"]
  /\ verr' = <<>>
  /\ UNCHANGED <<evars, tvars, lvars>>
  /\ UNCHANGED writes
  /\ UNCHANGED <<mem, parts, cloneOf>>

\* a validate that takes the namespaces it finds fault with out of the map
ValidateDropping(order, mOrder, rOrder) ==
  /\ LET res == validate(mem, parts, pm, order, mOrder, rOrder)
     IN  /\ verr' = ChainOf(res.eh, res.ref)
         /\ pm' = IF res.ref = 0 THEN pm ELSE [ns \in Namespaces |-> 0]
  /\ op' = [NoOp EXCEPT !.name = "validate"]
  /\ UNCHANGED <<evars, tvars, lvars>>
  /\ UNCHANGED writes
  /\ UNCHANGED <<mem, parts, cloneOf>>

\* pm.validate(), its result kept as the chain it returns (<<>>: nil)
Validate(order, mOrder, rOrder) ==
  /\ LET res == validate(mem, parts, pm, order, mOrder, rOrder)
     IN  verr' = ChainOf(res.eh, res.ref)
  /\ op' = [NoOp EXCEPT !.name = "validate"]
  /\ UNCHANGED <<evars, tvars, lvars>>
  /\ UNCHANGED writes
  /\ UNCHANGED <<mem, parts, pm, cloneOf>>

(***************************************************************************)
(* types/rand: the xorshift128+ generator.  A uint64 is the function from  *)
(* bit positions to bits, so that shifts, xor and the wrapping sum are     *)
(* computed at their width.                                                *)
(***************************************************************************)
\* width of the words of Xor128Rand.src
WordBits == 64
BitIdx == 0..(WordBits - 1)

\* the uint64 whose set bits are the positions in s
Word(s) == [i \in BitIdx |-> IF i \in s THEN 1 ELSE 0]

\* a ^ b
Xor(a, b) == [i \in BitIdx |-> (a[i] + b[i]) % 2]

\* a << k
Shl(a, k) == [i \in BitIdx |-> IF i >= k THEN a[i - k] ELSE 0]

\* a >> k
Shr(a, k) == [i \in BitIdx |-> IF i + k < WordBits THEN a[i + k] ELSE 0]

\* the carries of a + b, lowest bit first, as the sequence c[1..i]:
\* c[j] is the carry INTO bit j - 1
RECURSIVE Carries(_, _, _)
Carries(a, b, i) ==
  IF i = 0 THEN <<0>>
  ELSE LET c == Carries(a, b, i - 1)
       IN Append(c, (a[i - 1] + b[i - 1] + c[i]) \div 2)

\* a + b modulo 2^64
Add64(a, b) ==
  LET c == Carries(a, b, WordBits - 1)
  IN [i \in BitIdx |-> (a[i] + b[i] + c[i + 1]) % 2]

\* byte(x) & 0x7f as a number
RECURSIVE Low7From(_, _)
Low7From(x, j) == IF j > 6 THEN 0 ELSE x[j] + 2 * Low7From(x, j + 1)

Low7(x) == Low7From(x, 0)

\* x >= 0x80
AtLeast128(x) == \E i \in BitIdx : i >= 7 /\ x[i] = 1

\* the state of Uint64's receiver after the call, and the value returned
Uint64(src) ==
  LET s1 == src[1]
      s0 == src[2]
      t  == Xor(s1, Shl(s1, 23))
      n1 == Xor(Xor(Xor(t, s0), Shr(t, 17)), Shr(s0, 26))
  IN [src |-> <<s0, n1>>, res |-> Add64(n1, s0)]

\* binary.PutUvarint(buf[off:], x) from its byte i on: b is the slice with the
\* indices written so far; an index past the end of the slice panics
RECURSIVE PutUvarintFrom(_, _, _, _)
PutUvarintFrom(b, off, x, i) ==
  IF off + i >= Len(b.p)
    THEN [b EXCEPT !.panicked = TRUE]
    ELSE IF AtLeast128(x)
      THEN PutUvarintFrom([b EXCEPT !.p[off + i + 1] = Low7(x) + 128,
                                      !.written = @ \cup {off + i}],
                          off, Shr(x, 7), i + 1)
      ELSE [b EXCEPT !.p[off + i + 1] = Low7(x), !.written = @ \cup {off + i}]

PutUvarint(b, off, x) == PutUvarintFrom(b, off, x, 0)

\* the loop of Read from index i on: r is the generator and the slice
RECURSIVE ReadFrom(_, _, _)
ReadFrom(r, l, i) ==
  IF i >= l THEN r
  ELSE LET u == Uint64(r.src)
           b == PutUvarint([p |-> r.p, written |-> r.written, panicked |-> FALSE],
                           i, u.res)
           q == [r EXCEPT !.src = u.src, !.calls = @ + 1, !.p = b.p,
                          !.written = b.written, !.panicked = b.panicked]
       IN IF b.panicked THEN q ELSE ReadFrom(q, l, i + 8)

\* Xor128Rand.Read(p) for a p of n zero bytes; n = -1 stands for "no value
\* returned"
Read(r, n) ==
  LET q == ReadFrom([r EXCEPT !.p = [j \in 1..n |-> 0], !.written = {},
                              !.panicked = FALSE, !.n = -1, !.err = "nil"],
                    n \div 8, 0)
  IN IF q.panicked THEN q ELSE [q EXCEPT !.n = Len(q.p), !.err = "nil"]

\* no generator yet
NoRand ==
  [name |-> "init", src |-> <<Word({}), Word({})>>, calls |-> 0, p |-> <<>>,
   written |-> {}, panicked |-> FALSE, n |-> -1, err |-> "nil", res |-> Word({})]

(***************************************************************************)
(* internal/atomic: Guard[T], a mutex around a *T.  Every method holds the *)
(* mutex for its whole body, so each is one step.  The values of type T    *)
(* live in a heap of their own; a value is the number in S.a, or the       *)
(* number of entries of a map.                                             *)
(***************************************************************************)
\* values of type T the model allocates
MaxObjs == 3
\* largest S.a / map size a callback grows a value to
MaxVal == 3
ObjIds == 1..MaxObjs
\* the types the Guard is instantiated with: a struct and a map
GuardTypes == {"S", "map"}

\* no Guard yet
NoGuard ==
  [name |-> "init", T |-> "S", val |-> 0, objs |-> [i \in ObjIds |-> -1],
   inits |-> 0, passed |-> 0, seen |-> -1]

\* the lowest unused value (0: none left)
FreeObj(g) ==
  IF \E i \in ObjIds : g.objs[i] = -1
    THEN CHOOSE i \in ObjIds : g.objs[i] = -1 /\ \A j \in ObjIds : g.objs[j] = -1 => i <= j
    ELSE 0

\* &T{...}: a new value holding v
allocObj(g, v) == [g EXCEPT !.objs[FreeObj(g)] = v]

\* the callback f(g.val) of Do and InitDo: it is passed the stored pointer,
\* sees the value behind it and leaves v there (v = what it saw: no change)
callPtr(g, v) ==
  IF g.val = 0
    THEN [g EXCEPT !.passed = 0, !.seen = -1]
    ELSE [g EXCEPT !.passed = g.val, !.seen = g.objs[g.val], !.objs[g.val] = v]

\* the callback f(*g.val) of DoVal and InitDoVal: a struct is passed as a
\* copy, whose changes stay in the callback; a map shares its entries
callVal(g, v) ==
  [g EXCEPT !.passed = g.val, !.seen = g.objs[g.val],
            !.objs[g.val] = IF g.T = "map" THEN v ELSE @]

\* the initializer run on every call
initAlways(g, v) == [allocObj(g, v) EXCEPT !.val = FreeObj(g), !.inits = @ + 1]

\* if g.val == nil { g.val = init() }
initOnce(g, v) ==
  IF g.val = 0
    THEN [allocObj(g, v) EXCEPT !.val = FreeObj(g), !.inits = @ + 1]
    ELSE g

(***************************************************************************)
(* types/histogram: Histogram[int].  The values added are kept as a        *)
(* history, value -> number of times added since creation or Reset.        *)
(***************************************************************************)
\* Add calls made between two Resets
MaxAdds == 4
\* largest value added and largest base; values start at -2
MaxValue == 4
MaxBase == 2
\* largest number of buckets
MaxBuckets == 3
Values == (0 - 2)..MaxValue

\* no Histogram yet
NoHistogram ==
  [name |-> "init", htype |-> "Linear", base |-> 1, Buckets |-> <<>>,
   Min |-> 0, Max |-> 0, Sum |-> 0, Count |-> 0, added |-> [v \in Values |-> 0]]

\* NewLinear(base, buckets) / NewExponential(base, buckets)
newHistogram(htype, base, buckets) ==
  [NoHistogram EXCEPT !.name = "New", !.htype = htype, !.base = base,
                      !.Buckets = [i \in 1..buckets |-> 0]]

\* Histogram.Reset
Reset(h) ==
  [h EXCEPT !.name = "Reset", !.Buckets = [i \in 1..Len(h.Buckets) |-> 0],
            !.Min = 0, !.Max = 0, !.Sum = 0, !.Count = 0]

\* v / base on ints: the quotient truncated toward zero (base > 0)
Quo(v, base) == IF v >= 0 THEN v \div base ELSE 0 - ((0 - v) \div base)

\* the largest k with base^k <= v (v >= 1, base >= 2)
RECURSIVE ilog(_, _)
ilog(v, base) == IF v < base THEN 0 ELSE 1 + ilog(v \div base, base)

RECURSIVE pow(_, _)
pow(base, k) == IF k = 0 THEN 1 ELSE base * pow(base, k - 1)

\* the values int(math.Floor(math.Log(v) / math.Log(base))) can take: the
\* conversion of NaN or an infinity (v <= 0, or base = 1) is implementation
\* dependent, and at an exact power the rounded quotient may fall just
\* below the integer
expSlots(v, base, n) ==
  IF v <= 0 \/ base < 2 THEN (0 - 1)..n
  ELSE LET k == ilog(v, base)
       IN IF pow(base, k) = v /\ k > 0 THEN {k - 1, k} ELSE {k}

\* the values of slot in Add
slots(h, v) ==
  IF h.htype = "Linear" THEN {Quo(v, h.base)}
  ELSE expSlots(v, h.base, Len(h.Buckets))

\* the index (from 0) of the bucket Add increments for a slot
bucketOf(h, slot) ==
  IF slot >= Len(h.Buckets) THEN Len(h.Buckets) - 1
  ELSE IF slot < 0 THEN 0 ELSE slot

\* Min and Max tracked without the else branch
trackMaxOnly(h, v) ==
  IF h.Count = 0 THEN [h EXCEPT !.Max = v, !.Min = v]
  ELSE IF v > h.Max THEN [h EXCEPT !.Max = v] ELSE h

\* the first statement of Add
trackMinMax(h, v) ==
  IF h.Count = 0 THEN [h EXCEPT !.Max = v, !.Min = v]
  ELSE IF v > h.Max THEN [h EXCEPT !.Max = v]
  ELSE IF v < h.Min THEN [h EXCEPT !.Min = v] ELSE h

\* Histogram.Add(v), slot being the value the switch computed
Add(h, v, slot) ==
  [trackMinMax(h, v) EXCEPT !.name = "Add", !.Sum = @ + v, !.Count = @ + 1,
                            !.Buckets[bucketOf(h, slot) + 1] = @ + 1]


NoTend == [h |-> 0, ns |-> ""]

NoErrOp == [name |-> "init", a |-> 0, b |-> 0, res |-> 0, x |-> FALSE, y |-> FALSE]

Init ==
  /\ mem = [a \in ArrIds |-> <<>>]
  /\ parts = [h \in Handles |-> NoPartitions]
  /\ pm = [ns \in Namespaces |-> 0]
  /\ cloneOf = [h \in Handles |-> 0]
  /\ op = NoOp
  /\ writes = 0
  /\ verr = <<>>
  /\ eh = InitHeap(ErrIds)
  /\ doubtBy = [i \in ErrIds |-> "none"]
  /\ eop = NoErrOp
  /\ wr = NoTend
  /\ rd = 0
  /\ whole = [h \in Handles |-> NIL]
  /\ tick = <<>>
  /\ newPm = [ns \in Namespaces |-> 0]
  /\ xr = NoRand
  /\ guard = NoGuard
  /\ hist = NoHistogram

(***************************************************************************)
(* SpecResize: one Partitions object, resized and written.                 *)
(***************************************************************************)
NextResize ==
  \/ \E r \in 0..MaxReplicas : DoNewPartitions(1, _PARTITIONS, r, FALSE)
  \/ \E k \in 0..MaxReplicas : DoSetReplicaCount(1, k)
  \/ \E r \in 1..MaxReplicas, p \in 1.._PARTITIONS, node \in {"n1", NIL} :
       WriteSlot(1, r, p, node) /\ UNCHANGED writes

SpecResize == Init /\ [][NextResize]_vars

\* C7: setReplicaCount(k) leaves rows 1..min(k, old count) exactly as they
\* were, makes the count k, and every added row is all-nil (so a row dropped
\* by an earlier shrink never comes back with its old nodes).
SetReplicaCountFrame ==
  [][op'.name = "setReplicaCount" =>
       LET old == View(parts, mem, op'.h).Replicas
           new == View(parts', mem', op'.h).Replicas
       IN  /\ Len(new) = op'.k
           /\ \A i \in 1..op'.k :
                IF i <= Len(old) THEN new[i] = old[i]
                ELSE new[i] = Fill(_PARTITIONS, NIL)]_vars

\* a grow that re-used a slot of the backing array whose dropped row held a node
SetReplicaCountRegrown ==
  /\ op.name = "setReplicaCount"
  /\ op.k > op.p
  /\ op.v = "stale"
  /\ \E j \in 1.._PARTITIONS : mem[parts[1].arr[1]][j] # NIL

(***************************************************************************)
(* SpecClone: a Partitions object and its clones, both written afterwards. *)
(***************************************************************************)
NextClone ==
  \/ \E sc \in BOOLEAN :
       ~parts[1].live /\ DoNewPartitions(1, _PARTITIONS, MaxReplicas, sc)
  \/ \E src \in {1, 2}, dst \in {1, 2} : DoClone(src, dst)
  \/ \E h \in {1, 2}, r \in 1..MaxReplicas, p \in 1.._PARTITIONS, node \in {"n1", NIL} :
       writes < MaxWrites /\ WriteSlot(h, r, p, node) /\ writes' = writes + 1
  \/ \E h \in {1, 2}, p \in 1.._PARTITIONS, v \in 0..MaxRegime :
       writes < MaxWrites /\ WriteRegime(h, p, v) /\ writes' = writes + 1

SpecClone == Init /\ [][NextClone]_vars

\* C6: right after dst = src.clone() the two hold equal SCMode, regimes and
\* nodes, and a write to the grid or the regimes of one Partitions changes no
\* other Partitions (so not the clone's source, and not the source's clone).
CloneIndependent ==
  [][/\ op'.name = "clone" =>
          /\ View(parts', mem', op'.h) = View(parts', mem', op'.k)
          /\ View(parts', mem', op'.k) = View(parts, mem, op'.k)
     /\ op'.name \in {"write", "writeRegime"} =>
          \A g \in Handles \ {op'.h} :
             parts[g].live => View(parts', mem', g) = View(parts, mem, g)]_vars

\* a write has just made a clone differ from the Partitions it was cloned from
CloneDiverged ==
  /\ op.name \in {"write", "writeRegime"}
  /\ \E g \in Handles :
       /\ cloneOf[g] # 0
       /\ op.h \in {g, cloneOf[g]}
       /\ parts[g].len > 0
       /\ View(parts, mem, g).Replicas # View(parts, mem, cloneOf[g]).Replicas
       /\ View(parts, mem, g).regimes # View(parts, mem, cloneOf[g]).regimes

(***************************************************************************)
(* Steps of the program on error values.                                   *)
(***************************************************************************)
Allocated(e) == {i \in DOMAIN e : e[i].kind # "free"}

\* errors the program passes around as Error / as error: the constants are
\* handed out through err() and are not wrapped themselves
Errors(e) == {i \in Allocated(e) : IsError(e, i)}
Wrappable(e) == {i \in Allocated(e) : e[i].kind # "const"}

\* result codes the model creates errors with
NewCodes == {"PARAMETER_ERROR"}
Codes == NewCodes \cup {"COMMON_ERROR", "TIMEOUT", "INVALID_CLUSTER_PARTITION_MAP"}

HasRoom == Cardinality(Allocated(eh) \ SentinelIds) < MaxErrs

DoNewError(code) ==
  /\ HasRoom
  /\ LET res == newError(eh, code, ResultCodeToString(code))
     IN  /\ eh' = res.eh
         /\ eop' = [NoErrOp EXCEPT !.name = "newError", !.res = res.ref]
  /\ UNCHANGED <<doubtBy, pvars, tvars, lvars>>

DoErr(c) ==
  /\ HasRoom
  /\ LET res == err(eh, c)
     IN  /\ eh' = res.eh
         /\ eop' = [NoErrOp EXCEPT !.name = "err", !.a = c, !.res = res.ref]
  /\ UNCHANGED <<doubtBy, pvars, tvars, lvars>>

\* an error of another package, wrapping inner (0: nothing) for Unwrap()
DoForeign(inner) ==
  /\ HasRoom
  /\ LET res == allocErr(eh, [FreeErr EXCEPT !.kind = "foreign", !.wrapped = inner])
     IN  /\ eh' = res.eh
         /\ eop' = [NoErrOp EXCEPT !.name = "foreign", !.b = inner, !.res = res.ref]
  /\ UNCHANGED <<doubtBy, pvars, tvars, lvars>>

DoNewErrorAndWrap(inner, code) ==
  /\ HasRoom
  /\ LET res == newErrorAndWrap(eh, inner, code, ResultCodeToString(code))
     IN  /\ eh' = res.eh
         /\ eop' = [NoErrOp EXCEPT !.name = "newErrorAndWrap", !.b = inner, !.res = res.ref]
  /\ UNCHANGED <<doubtBy, pvars, tvars, lvars>>

DoChainErrors(outer, inner) ==
  /\ (outer # 0 /\ inner # 0) \/ (outer = 0 /\ inner # 0 /\ ~IsError(eh, inner)) => HasRoom
  /\ LET res == chainErrors(eh, outer, inner)
     IN  /\ eh' = res.eh
         /\ eop' = [NoErrOp EXCEPT !.name = "chainErrors", !.a = outer, !.b = inner,
                                   !.res = res.ref]
         /\ doubtBy' = IF res.ref \in {0, outer, inner} THEN doubtBy
                       ELSE [doubtBy EXCEPT ![res.ref] = IF outer = 0 THEN "none" ELSE doubtBy[outer]]
  /\ UNCHANGED <<pvars, tvars, lvars>>

(***************************************************************************)
(* SpecChain: errors built, wrapped and chained.                           *)
(***************************************************************************)
NextChain ==
  \/ \E code \in NewCodes : DoNewError(code)
  \/ \E c \in {ErrInvalidPartitionMap, ErrTimeout} : DoErr(c)
  \/ \E inner \in Wrappable(eh) \cup {0} : DoForeign(inner)
  \/ \E inner \in Wrappable(eh), code \in NewCodes : DoNewErrorAndWrap(inner, code)
  \/ \E outer \in Errors(eh) \cup {0}, inner \in Wrappable(eh) \cup {0} :
       DoChainErrors(outer, inner)

SpecChain == Init /\ [][NextChain]_vars

Mutable(e) == {i \in Allocated(e) : e[i].kind = "ae"}

\* response statuses handed to newGrpcStatusError
Statuses == {-9, 2}

DoSetInDoubt(r, isRead, commandWasSent) ==
  /\ eh' = setInDoubt(eh, r, isRead, commandWasSent)
  /\ doubtBy' = IF ~isRead /\ commandWasSent THEN [doubtBy EXCEPT ![r] = "write_sent"]
                ELSE doubtBy
  /\ eop' = [NoErrOp EXCEPT !.name = "setInDoubt", !.a = r, !.res = r,
                            !.x = isRead, !.y = commandWasSent]
  /\ UNCHANGED <<pvars, tvars, lvars>>

DoMarkInDoubt(r, v) ==
  /\ eh' = markInDoubt(eh, r, v)
  /\ doubtBy' = [doubtBy EXCEPT ![r] = IF v THEN "markInDoubt" ELSE "none"]
  /\ eop' = [NoErrOp EXCEPT !.name = "markInDoubt", !.a = r, !.res = r, !.x = v]
  /\ UNCHANGED <<pvars, tvars, lvars>>

DoMarkInDoubtIf(r, v) ==
  /\ eh' = markInDoubtIf(eh, r, v)
  /\ doubtBy' = [doubtBy EXCEPT ![r] = IF v THEN "markInDoubtIf" ELSE "none"]
  /\ eop' = [NoErrOp EXCEPT !.name = "markInDoubtIf", !.a = r, !.res = r, !.x = v]
  /\ UNCHANGED <<pvars, tvars, lvars>>

DoNewGrpcStatusError(status, inDoubt) ==
  /\ HasRoom
  /\ LET res == newGrpcStatusError(eh, status, inDoubt)
     IN  /\ eh' = res.eh
         /\ doubtBy' = [doubtBy EXCEPT ![res.ref] = IF inDoubt THEN "grpc" ELSE "none"]
         /\ eop' = [NoErrOp EXCEPT !.name = "newGrpcStatusError", !.res = res.ref, !.x = inDoubt]
  /\ UNCHANGED <<pvars, tvars, lvars>>

DoNewNodeError(node, r) ==
  /\ HasRoom
  /\ LET res == newNodeError(eh, node, r)
     IN  /\ eh' = res.eh
         /\ doubtBy' = [doubtBy EXCEPT ![res.ref] = doubtBy[r]]
         /\ eop' = [NoErrOp EXCEPT !.name = "newNodeError", !.b = r, !.res = res.ref]
  /\ UNCHANGED <<pvars, tvars, lvars>>

\* the errors of SpecDoubt are counted apart from the constants
DoubtRoom == Cardinality(Mutable(eh)) < MaxDoubtErrs

NextDoubt ==
  \/ \E code \in NewCodes : DoubtRoom /\ DoNewError(code)
  \/ DoubtRoom /\ DoErr(ErrTimeout)
  \/ \E r \in Mutable(eh), isRead \in BOOLEAN, sent \in BOOLEAN : DoSetInDoubt(r, isRead, sent)
  \/ \E r \in Mutable(eh), v \in BOOLEAN : DoMarkInDoubt(r, v)
  \/ \E r \in Mutable(eh), v \in BOOLEAN : DoMarkInDoubtIf(r, v)
  \/ \E status \in Statuses, d \in BOOLEAN : DoubtRoom /\ DoNewGrpcStatusError(status, d)
  \/ \E outer \in Mutable(eh), inner \in Mutable(eh) : DoubtRoom /\ DoChainErrors(outer, inner)
  \/ \E r \in Mutable(eh) : DoubtRoom /\ DoNewNodeError("n1", r)

SpecDoubt == Init /\ [][NextDoubt]_vars

\* C4: after setInDoubt(isRead = true, commandWasSent) the error is not in
\* doubt, for both values of commandWasSent and whatever its state was.
ReadNeverInDoubt ==
  [][eop'.name = "setInDoubt" /\ eop'.x => ~IsInDoubt(eh', eop'.a)]_vars

\* C5 as stated: an error is in doubt only if setInDoubt(isRead = false,
\* commandWasSent = true) made it so (on it or on the error it was copied from).
InDoubtOnlyByWriteSent ==
  \A r \in Allocated(eh) : eh[r].InDoubt => doubtBy[r] = "write_sent"

\* C5 as amended: an error is in doubt only if its flag was last decided (on
\* it, or on the error chainErrors / newNodeError copied it from) by
\* setInDoubt(isRead = false, commandWasSent = true), markInDoubt(true),
\* markInDoubtIf(true) or newGrpcStatusError on an in-doubt response.
InDoubtOnlyByMarking ==
  \A r \in Allocated(eh) :
     eh[r].InDoubt => doubtBy[r] \in {"write_sent", "markInDoubt", "markInDoubtIf", "grpc"}

\* a write whose bytes were sent is in doubt, and so is a copy of it, while an
\* error classified for a read of which the bytes were sent is not
InDoubtWriteSent ==
  /\ \E r \in Allocated(eh) :
       eh[r].InDoubt /\ doubtBy[r] = "write_sent" /\ eh[r].wrapped # 0
  /\ eop.name = "setInDoubt" /\ eop.x /\ eop.y /\ ~eh[eop.a].InDoubt

(***************************************************************************)
(* Spec: the partition map filled through newPartitions, setReplicaCount,  *)
(* clone, slot writes and set, and validated.                              *)
(***************************************************************************)
Next ==
  \/ \E n \in PartitionCounts, r \in 0..MaxReplicas :
       ~parts[1].live /\ DoNewPartitions(1, n, r, FALSE)
  \/ \E k \in 0..MaxReplicas : DoSetReplicaCount(1, k)
  \/ DoClone(1, 2)
  \/ \E r \in 1..MaxReplicas, p \in 1.._PARTITIONS :
       /\ writes < MaxWrites
       /\ WriteSlot(1, r, p, "n1")
       /\ writes' = writes + 1
  \/ DoSet("test", 1)
  \/ DoSet("bar", 2)
  \/ \E ns \in Namespaces : DoDelete(ns)
  \/ \E order \in Orders({ns \in Namespaces : pm[ns] # 0}),
        mOrder \in Orders(Namespaces), rOrder \in Orders(Namespaces) :
       Validate(order, mOrder, rOrder)

Spec == Init /\ [][Next]_vars

\* the namespace ns holds a Partitions whose master row has a node for every
\* partition index
MastersDefined(ns) ==
  LET p == parts[pm[ns]]
  IN  /\ p.len >= 1
      /\ Len(mem[p.arr[1]]) >= _PARTITIONS
      /\ \A i \in 1.._PARTITIONS : mem[p.arr[1]][i] # NIL

\* C1: whenever validate() returns nil, every namespace stored in the map has
\* a non-nil node at Replicas[0][p] for every partition index p.
ValidatedMastersDefined ==
  (op.name = "validate" /\ verr = <<>>) =>
     \A ns \in Namespaces : pm[ns] # 0 => MastersDefined(ns)

\* the namespace ns holds what newPartitions(_PARTITIONS, 2, _) returns
EmptyTwoReplicas(ns) ==
  /\ pm[ns] # 0
  /\ View(parts, mem, pm[ns]).Replicas = <<Fill(_PARTITIONS, NIL), Fill(_PARTITIONS, NIL)>>
  /\ View(parts, mem, pm[ns]).regimes = Fill(_PARTITIONS, 0)

\* the entries of the validate result that report missing masters of ns
MissingMaster(ns) ==
  {i \in 1..Len(verr) : /\ verr[i].msg.fmt = "Master partition nodes not defined"
                        /\ verr[i].msg.ns = ns}

\* C10: validating a map whose one namespace holds an empty
\* newPartitions(_PARTITIONS, 2, _) fails with an error whose outermost code is
\* INVALID_CLUSTER_PARTITION_MAP and whose chain reports, once, _PARTITIONS
\* missing masters for that namespace.
ValidateEmptyReportsAllMasters ==
  \A ns \in Namespaces :
     (op.name = "validate" /\ len(pm) = 1 /\ EmptyTwoReplicas(ns)) =>
        /\ verr # <<>>
        /\ verr[1].ResultCode = "INVALID_CLUSTER_PARTITION_MAP"
        /\ \E i \in 1..Len(verr) :
             /\ MissingMaster(ns) = {i}
             /\ verr[i].msg.a = _PARTITIONS
             /\ verr[i].msg.b = _PARTITIONS

ValidatedEmpty ==
  /\ op.name = "validate"
  /\ len(pm) = 1
  /\ \E ns \in Namespaces : EmptyTwoReplicas(ns)
  /\ Len(verr) = 3

(***************************************************************************)
(* SpecRegime: regime-stamped updates of one Partitions.  The routine that *)
(* applies them is not part of partitions.go; it is modelled from the      *)
(* documented rule over the Replicas and regimes fields.                   *)
(***************************************************************************)
\* an update that takes strictly newer regimes only
updatePartitionNewerOnly(m, p, replica, partition, regime, node) ==
  IF regime > m[p.regimes][partition]
  THEN [m EXCEPT ![p.regimes][partition] = regime, ![p.arr[replica]][partition] = node]
  ELSE m

\* a regime below the stored one is stale and the update is discarded;
\* otherwise the regime is stored and the node replaces the slot's node
updatePartition(m, p, replica, partition, regime, node) ==
  IF regime >= m[p.regimes][partition]
  THEN [m EXCEPT ![p.regimes][partition] = regime, ![p.arr[replica]][partition] = node]
  ELSE m

DoUpdatePartition(h, replica, partition, regime, node) ==
  /\ parts[h].live
  /\ replica \in 1..parts[h].len
  /\ partition \in 1..Len(mem[parts[h].regimes])
  /\ partition \in 1..Len(mem[parts[h].arr[replica]])
  /\ mem' = updatePartition(mem, parts[h], replica, partition, regime, node)
  /\ op' = [NoOp EXCEPT !.name = "updatePartition", !.h = h, !.k = regime,
                         !.p = partition, !.v = node]
  /\ verr' = <<>>
  /\ UNCHANGED <<parts, pm, cloneOf, writes>>
  /\ UNCHANGED <<evars, tvars, lvars>>

NextRegime ==
  \/ ~parts[1].live /\ DoNewPartitions(1, _PARTITIONS, 1, TRUE)
  \/ \E partition \in 1.._PARTITIONS, regime \in 0..MaxRegime, node \in Nodes :
       DoUpdatePartition(1, 1, partition, regime, node)

SpecRegime == Init /\ [][NextRegime]_vars

\* C2: an update whose regime is below the stored one changes nothing; one
\* whose regime is at least the stored one stores its regime and its node for
\* that partition and nothing else; no step lowers a stored regime.
RegimeUpdateRule ==
  [][/\ op'.name = "updatePartition" =>
          LET p   == parts[op'.h]
              old == mem[p.regimes][op'.p]
          IN  IF op'.k < old
              THEN View(parts', mem', op'.h) = View(parts, mem, op'.h)
              ELSE \E replica \in 1..p.len :
                      mem' = [mem EXCEPT ![p.regimes][op'.p] = op'.k,
                                         ![p.arr[replica]][op'.p] = op'.v]
     /\ parts[1].live =>
          \A i \in 1.._PARTITIONS :
             mem'[parts'[1].regimes][i] >= mem[parts[1].regimes][i]]_vars

\* a stale update was discarded: the slot holds another node under a newer regime
StaleUpdateDiscarded ==
  /\ op.name = "updatePartition"
  /\ op.k < mem[parts[1].regimes][op.p]
  /\ mem[parts[1].arr[1]][op.p] # op.v

(***************************************************************************)
(* SpecTend: the tend routine builds a Partitions in private and publishes *)
(* it with set while a command reads the map with get.                     *)
(***************************************************************************)
\* forget the Partitions h when neither the map, the command nor the tend
\* routine (whose private copy is w) refers to it any more
Release(ps, pmap, r, w, h) ==
  IF h # 0 /\ h # r /\ h # w /\ \A ns \in Namespaces : pmap[ns] # h
  THEN [ps EXCEPT ![h] = NoPartitions]
  ELSE ps

\* the tend routine starts on ns: a clone of the published Partitions, or a
\* new one when the namespace has none
TendBegin(ns, r) ==
  /\ wr.h = 0
  /\ \E f \in Handles : ~parts[f].live
  /\ LET h   == Min({f \in Handles : ~parts[f].live})
         got == get(pm, ns)
         res == IF got.ok THEN clone(mem, parts[got.value])
                ELSE newPartitions(mem, _PARTITIONS, r, FALSE)
         gc  == Collect([parts EXCEPT ![h] = res.obj], res.mem)
     IN  /\ parts' = gc.parts
         /\ mem' = gc.mem
         /\ wr' = [h |-> h, ns |-> ns]
         /\ cloneOf' = [g \in Handles |-> IF g = h THEN got.value
                                          ELSE IF cloneOf[g] = h THEN 0 ELSE cloneOf[g]]
         /\ op' = [NoOp EXCEPT !.name = "tendBegin", !.h = h]
  /\ verr' = <<>>
  /\ UNCHANGED <<pm, writes, rd, whole, tick, newPm, evars, lvars>>

\* the tend routine assigns a node on its private copy
TendEditSlot(r, p, node) ==
  /\ wr.h # 0
  /\ writes < MaxWrites
  /\ r \in 1..parts[wr.h].len
  /\ p \in 1..Len(mem[parts[wr.h].arr[r]])
  /\ mem' = [mem EXCEPT ![parts[wr.h].arr[r]][p] = node]
  /\ writes' = writes + 1
  /\ op' = [NoOp EXCEPT !.name = "tendEdit", !.h = wr.h]
  /\ verr' = <<>>
  /\ UNCHANGED <<parts, pm, cloneOf, tvars, lvars, evars>>

\* the tend routine stores a regime on its private copy
TendEditRegime(p, v) ==
  /\ wr.h # 0
  /\ writes < MaxWrites
  /\ p \in 1..Len(mem[parts[wr.h].regimes])
  /\ mem' = [mem EXCEPT ![parts[wr.h].regimes][p] = v]
  /\ writes' = writes + 1
  /\ op' = [NoOp EXCEPT !.name = "tendEditRegime", !.h = wr.h]
  /\ verr' = <<>>
  /\ UNCHANGED <<parts, pm, cloneOf, tvars, lvars, evars>>

\* pm.set(ns, private copy)
TendPublish ==
  /\ wr.h # 0
  /\ LET pm2 == set(pm, wr.ns, wr.h)
         ps2 == Release(parts, pm2, rd, 0, pm[wr.ns])
         gc  == Collect(ps2, mem)
     IN  /\ pm' = pm2
         /\ parts' = gc.parts
         /\ mem' = gc.mem
         /\ whole' = [h \in Handles |->
                        IF h = wr.h THEN View(parts, mem, wr.h)
                        ELSE IF ps2[h].live THEN whole[h] ELSE NIL]
  /\ wr' = NoTend
  /\ op' = [NoOp EXCEPT !.name = "set", !.h = wr.h]
  /\ verr' = <<>>
  /\ UNCHANGED <<cloneOf, writes, rd, tick, newPm, evars, lvars>>

\* a command calls pm.get(ns) and keeps the pointer it returns
ReaderGet(ns) ==
  /\ LET got == get(pm, ns)
         ps2 == Release(parts, pm, got.value, wr.h, rd)
         gc  == Collect(ps2, mem)
     IN  /\ rd' = got.value
         /\ parts' = gc.parts
         /\ mem' = gc.mem
         /\ whole' = [h \in Handles |-> IF ps2[h].live THEN whole[h] ELSE NIL]
  /\ op' = [NoOp EXCEPT !.name = "get"]
  /\ verr' = <<>>
  /\ UNCHANGED <<pm, cloneOf, writes, wr, tick, newPm, evars, lvars>>

NextTend ==
  \/ \E ns \in {"test"} : TendBegin(ns, 1)
  \/ \E p \in 1.._PARTITIONS : TendEditSlot(1, p, "n1")
  \/ \E p \in 1.._PARTITIONS : TendEditRegime(p, 1)
  \/ TendPublish
  \/ \E ns \in {"test"} : ReaderGet(ns)

SpecTend == Init /\ [][NextTend]_vars

\* C3: the Partitions a command got from the map, and the one the map holds,
\* have the value they had when set published them, whatever the tend routine
\* has built or published since; and while the tend routine is building, get
\* on its namespace can be taken.
ReaderSeesWhole ==
  /\ \A h \in Handles :
       (h = rd \/ Published(h)) => View(parts, mem, h) = whole[h]
  /\ wr.h # 0 => ENABLED ReaderGet(wr.ns)

\* the command holds the value before last while the tend routine has
\* published another and is part-way through building a third
ReaderHoldsOld ==
  /\ rd # 0
  /\ ~Published(rd)
  /\ wr.h # 0
  /\ pm[wr.ns] # 0
  /\ View(parts, mem, rd) # View(parts, mem, pm[wr.ns])
  /\ View(parts, mem, wr.h) # View(parts, mem, pm[wr.ns])

(***************************************************************************)
(* SpecTick: one tend tick applies a node's report, a regime for every     *)
(* partition, to a Partitions.  Like updatePartition, the routine is       *)
(* modelled from the documented rule.                                      *)
(***************************************************************************)
\* the reports of a node: the regime it holds for each partition
Reports == [node : Nodes, regimes : [1.._PARTITIONS -> 0..MaxRegime]]

\* a tick that gives up the whole report when one of its regimes is stale
applyTickAllOrNothing(m, p, replica, report, i) ==
  IF \E j \in 1.._PARTITIONS : report.regimes[j] < m[p.regimes][j] THEN m
  ELSE [m EXCEPT ![p.regimes] = report.regimes,
                 ![p.arr[replica]] = [j \in 1.._PARTITIONS |-> report.node]]

\* the updates of one tick, partition by partition from index i on
RECURSIVE applyTick(_, _, _, _, _)
applyTick(m, p, replica, report, i) ==
  IF i > _PARTITIONS THEN m
  ELSE applyTick(updatePartition(m, p, replica, i, report.regimes[i], report.node),
                 p, replica, report, i + 1)

DoTendTick(h, replica, report) ==
  /\ parts[h].live
  /\ replica \in 1..parts[h].len
  /\ Len(mem[parts[h].regimes]) = _PARTITIONS
  /\ Len(mem[parts[h].arr[replica]]) = _PARTITIONS
  /\ mem' = applyTick(mem, parts[h], replica, report, 1)
  /\ tick' = report
  /\ op' = [NoOp EXCEPT !.name = "tendTick", !.h = h, !.k = replica]
  /\ verr' = <<>>
  /\ UNCHANGED <<parts, pm, cloneOf, writes, wr, rd, whole, newPm>>
  /\ UNCHANGED <<evars, lvars>>

NextTick ==
  \/ ~parts[1].live /\ DoNewPartitions(1, _PARTITIONS, 1, TRUE)
  \/ \E report \in Reports : DoTendTick(1, 1, report)

SpecTick == Init /\ [][NextTick]_vars

\* C11: a tick stores regime and node for exactly the partitions whose
\* reported regime is not below the stored one, and leaves every other
\* partition's regime and node as they were, whatever happened to the rest.
TickAppliesPartially ==
  [][op'.name = "tendTick" =>
       LET p == parts[op'.h]
       IN  \A i \in 1.._PARTITIONS :
              IF tick'.regimes[i] >= mem[p.regimes][i]
              THEN /\ mem'[p.regimes][i] = tick'.regimes[i]
                   /\ mem'[p.arr[op'.k]][i] = tick'.node
              ELSE /\ mem'[p.regimes][i] = mem[p.regimes][i]
                   /\ mem'[p.arr[op'.k]][i] = mem[p.arr[op'.k]][i]]_vars

\* a tick that took one partition and left another with its earlier node
TickAppliedHalf ==
  /\ op.name = "tendTick"
  /\ \E i, j \in 1.._PARTITIONS :
       /\ mem[parts[1].regimes][i] = tick.regimes[i]
       /\ mem[parts[1].arr[1]][i] = tick.node
       /\ mem[parts[1].regimes][j] > tick.regimes[j]
       /\ mem[parts[1].arr[1]][j] \notin {tick.node, NIL}

(***************************************************************************)
(* SpecSentinel: the package-level constants handed, as they are, to the   *)
(* functions that build errors from other errors.                          *)
(***************************************************************************)
\* an error of another package that is, or carries the status, kind
DoGrpcFailure(kind) ==
  /\ HasRoom
  /\ LET res == allocErr(eh, [FreeErr EXCEPT !.kind = "foreign", !.grpc = kind])
     IN  /\ eh' = res.eh
         /\ eop' = [NoErrOp EXCEPT !.name = "grpcFailure", !.res = res.ref]
  /\ UNCHANGED <<doubtBy, pvars, tvars, lvars>>

DoNewGrpcError(r, messages) ==
  /\ HasRoom
  /\ LET res == newGrpcError(eh, r, messages)
     IN  /\ eh' = res.eh
         /\ eop' = [NoErrOp EXCEPT !.name = "newGrpcError", !.b = r, !.res = res.ref]
  /\ UNCHANGED <<doubtBy, pvars, tvars, lvars>>

DoNewInvalidNodeError(clusterSize, partition) ==
  /\ HasRoom
  /\ LET res == newInvalidNodeError(eh, clusterSize, partition)
     IN  /\ eh' = res.eh
         /\ eop' = [NoErrOp EXCEPT !.name = "newInvalidNodeError", !.a = clusterSize,
                                   !.res = res.ref]
  /\ UNCHANGED <<doubtBy, pvars, tvars, lvars>>

\* the errors of SpecSentinel besides the constants
FewErrs == Cardinality(Allocated(eh) \ SentinelIds) < MaxDoubtErrs

\* the constants the steps of SpecSentinel are given, and all they are given
SentinelArgs == {ErrTimeout, ErrNetwork}
Args(e) == (Allocated(e) \ SentinelIds) \cup SentinelArgs

NextSentinel ==
  \/ \E c \in SentinelArgs : FewErrs /\ DoErr(c)
  \/ \E outer \in (Args(eh) \cap Errors(eh)) \cup {0}, inner \in Args(eh) \cup {0} :
       FewErrs /\ DoChainErrors(outer, inner)
  \/ \E r \in Args(eh) \cap Errors(eh) : FewErrs /\ DoNewNodeError("n1", r)
  \/ \E kind \in {"grpc.ErrServerStopped", "DataLoss"} : FewErrs /\ DoGrpcFailure(kind)
  \/ \E r \in Args(eh) \cup {0} : FewErrs /\ DoNewGrpcError(r, <<>>)
  \/ \E clusterSize \in {0, 1} : FewErrs /\ DoNewInvalidNodeError(clusterSize, 0)

SpecSentinel == Init /\ [][NextSentinel]_vars

\* C12: whatever err(), chainErrors, newNodeError, newGrpcError and
\* newInvalidNodeError are called with, every package-level constant keeps
\* the result code, message, nil wrapped error, nil Node, InDoubt = false and
\* Iteration = 0 it was created with.
SentinelsUntouched == \A c \in SentinelIds : eh[c] = Sentinels[c]

\* a constant was given to newNodeError and was the outer error of a chain
SentinelsUsed ==
  /\ \E r \in Allocated(eh) \ SentinelIds :
       eh[r].Node = "n1" /\ eh[r].wrapped \in SentinelIds
  /\ eop.name = "chainErrors" /\ eop.a \in SentinelIds /\ eop.b # 0
  /\ eh[eop.res].wrapped = eop.b

\* the entries of the validate result that report missing replicas of ns
MissingReplica(ns) ==
  {i \in 1..Len(verr) : /\ verr[i].msg.fmt = "Replica partition nodes not defined"
                        /\ verr[i].msg.ns = ns}

\* the nil slots of the rows rs of the Partitions stored for ns
NilSlots(ns, rs) ==
  {rp \in rs \X (1.._PARTITIONS) :
     /\ rp[2] <= Len(mem[parts[pm[ns]].arr[rp[1]]])
     /\ mem[parts[pm[ns]].arr[rp[1]]][rp[2]] = NIL}

\* the Partitions stored for ns has a structural problem
Malformed(ns) ==
  LET p == parts[pm[ns]]
  IN  \/ regimesLen(mem, p) # _PARTITIONS
      \/ \E r \in 1..p.len : Len(mem[p.arr[r]]) # _PARTITIONS
      \/ NilSlots(ns, 1..p.len) # {}

\* C13: validate() returns an error exactly when a stored namespace has a
\* regime count or a row length other than _PARTITIONS or a nil slot; the
\* error's outermost code is INVALID_CLUSTER_PARTITION_MAP, and its chain holds
\* for each namespace one entry with the number of its nil master slots and
\* one with the number of its nil slots in the other rows (none when the
\* number is zero).
ValidateReportsAll ==
  op.name = "validate" =>
    /\ verr # <<>> <=> \E ns \in Namespaces : pm[ns] # 0 /\ Malformed(ns)
    /\ verr # <<>> =>
         /\ verr[1].ResultCode = "INVALID_CLUSTER_PARTITION_MAP"
         /\ \A ns \in Namespaces :
              LET p  == parts[pm[ns]]
                  nm == IF pm[ns] = 0 THEN 0
                        ELSE Cardinality(NilSlots(ns, 1..p.len \cap {1}))
                  nr == IF pm[ns] = 0 THEN 0
                        ELSE Cardinality(NilSlots(ns, 2..p.len))
              IN  /\ Cardinality(MissingMaster(ns)) = IF nm > 0 THEN 1 ELSE 0
                  /\ \A i \in MissingMaster(ns) : verr[i].msg.a = nm
                  /\ Cardinality(MissingReplica(ns)) = IF nr > 0 THEN 1 ELSE 0
                  /\ \A i \in MissingReplica(ns) : verr[i].msg.a = nr

\* a validate whose result reports masters and replicas of two namespaces
ValidatedBothKinds ==
  /\ op.name = "validate"
  /\ \A ns \in Namespaces : MissingMaster(ns) # {} /\ MissingReplica(ns) # {}

\* C14: validate() leaves the map as it was, whatever it returns: the same
\* namespaces, and the same Replicas, regimes and SCMode in every Partitions.
ValidateFrame ==
  [][op'.name = "validate" =>
       /\ pm' = pm
       /\ \A h \in Handles :
            /\ parts'[h].live = parts[h].live
            /\ parts[h].live => View(parts', mem', h) = View(parts, mem, h)]_vars

\* a validate that failed on a map in which a master slot is resolved
ValidateFailedOnPartlyResolved ==
  /\ op.name = "validate"
  /\ verr # <<>>
  /\ \E ns \in Namespaces :
       /\ pm[ns] # 0
       /\ parts[pm[ns]].len >= 1
       /\ \E i \in 1..Len(mem[parts[pm[ns]].arr[1]]) : mem[parts[pm[ns]].arr[1]][i] # NIL

(***************************************************************************)
(* SpecCleanup: the map filled and then released by cleanup().             *)
(***************************************************************************)
\* for j := range partitions.Replicas[i] { partitions.Replicas[i][j] = nil },
\* for the rows from i on
RECURSIVE cleanupRows(_, _, _)
cleanupRows(m, p, i) ==
  IF i > p.len THEN m
  ELSE cleanupRows(IF p.arr[i] = 0 THEN m
                   ELSE [m EXCEPT ![p.arr[i]] = Fill(Len(@), NIL)], p, i + 1)

\* a callback that releases the Partitions and leaves its key in the map
cleanupOneKeepKey(st, ns) ==
  LET h == st.pm[ns]
      p == st.parts[h]
  IN  [mem   |-> cleanupRows(st.mem, p, 1),
       parts |-> [st.parts EXCEPT ![h] = [p EXCEPT !.arr = <<>>, !.len = 0, !.regimes = 0]],
       pm    |-> st.pm]

\* the callback cleanup() runs on one namespace
cleanupOne(st, ns) ==
  LET h == st.pm[ns]
      p == st.parts[h]
  IN  [mem   |-> cleanupRows(st.mem, p, 1),
       parts |-> [st.parts EXCEPT ![h] = [p EXCEPT !.arr = <<>>, !.len = 0, !.regimes = 0]],
       pm    |-> delete(st.pm, ns)]

\* pm.iterate over the namespaces in the order of the Range
RECURSIVE cleanup(_, _)
cleanup(st, order) ==
  IF order = <<>> THEN st ELSE cleanup(cleanupOne(st, Head(order)), Tail(order))

DoCleanup(order) ==
  /\ LET res == cleanup([mem |-> mem, parts |-> parts, pm |-> pm], order)
         gc  == Collect(res.parts, res.mem)
     IN  /\ pm' = res.pm
         /\ parts' = gc.parts
         /\ mem' = gc.mem
  /\ op' = [NoOp EXCEPT !.name = "cleanup"]
  /\ verr' = <<>>
  /\ UNCHANGED <<cloneOf, writes>>
  /\ UNCHANGED <<evars, tvars, lvars>>

NextCleanup ==
  \/ \E h \in {1, 2}, r \in 1..MaxReplicas : DoNewPartitions(h, _PARTITIONS, r, FALSE)
  \/ \E h \in {1, 2}, r \in 1..MaxReplicas, p \in 1.._PARTITIONS :
       /\ writes < MaxWrites
       /\ WriteSlot(h, r, p, "n1")
       /\ writes' = writes + 1
  \/ \E ns \in Namespaces, h \in {1, 2} : DoSet(ns, h)
  \/ \E order \in Orders({ns \in Namespaces : pm[ns] # 0}) : DoCleanup(order)

SpecCleanup == Init /\ [][NextCleanup]_vars

\* C15: after cleanup() the map has no namespace (len() is 0 and get finds
\* nothing), and every Partitions that was in it has nil Replicas and nil
\* regimes.
CleanupReleasesAll ==
  [][op'.name = "cleanup" =>
       /\ len(pm') = 0
       /\ \A ns \in Namespaces : ~get(pm', ns).ok
       /\ \A ns \in Namespaces :
            pm[ns] # 0 =>
               /\ parts'[pm[ns]].arr = <<>>
               /\ parts'[pm[ns]].len = 0
               /\ parts'[pm[ns]].regimes = 0]_vars

\* a cleanup of a map that held two Partitions with assigned nodes
CleanedUpTwo ==
  /\ op.name = "cleanup"
  /\ writes = MaxWrites
  /\ parts[1].live /\ parts[1].regimes = 0
  /\ parts[2].live /\ parts[2].regimes = 0

(***************************************************************************)
(* SpecMapClone: a map, its partitionMap.clone(), and later changes made   *)
(* through either of them.  which = 1 is the source, 2 the clone.          *)
(***************************************************************************)
\* a callback that stores the source's pointer in the new map
pmCloneOneShared(st, src, ns) == [st EXCEPT !.newPm[ns] = src[ns]]

\* newPm.set(ns, partitions.clone())
pmCloneOne(st, src, ns) ==
  LET h   == Min({f \in Handles : ~st.parts[f].live})
      res == clone(st.mem, st.parts[src[ns]])
  IN  [mem   |-> res.mem,
       parts |-> [st.parts EXCEPT ![h] = res.obj],
       newPm |-> set(st.newPm, ns, h)]

\* pm.iterate over the namespaces of src in the order of the Range
RECURSIVE pmClone(_, _, _)
pmClone(st, src, order) ==
  IF order = <<>> THEN st ELSE pmClone(pmCloneOne(st, src, Head(order)), src, Tail(order))

\* the Partitions neither map refers to are garbage
Unmapped(ps, m1, m2) ==
  [h \in Handles |->
     IF \E ns \in Namespaces : m1[ns] = h \/ m2[ns] = h THEN ps[h] ELSE NoPartitions]

MapOf(which) == IF which = 1 THEN pm ELSE newPm

DoMapClone(order) ==
  /\ len(newPm) = 0
  /\ len(pm) > 0
  /\ Cardinality({f \in Handles : ~parts[f].live}) >= len(pm)
  /\ LET res == pmClone([mem |-> mem, parts |-> parts,
                         newPm |-> [ns \in Namespaces |-> 0]], pm, order)
         gc  == Collect(res.parts, res.mem)
     IN  /\ newPm' = res.newPm
         /\ parts' = gc.parts
         /\ mem' = gc.mem
  /\ op' = [NoOp EXCEPT !.name = "mapClone"]
  /\ verr' = <<>>
  /\ UNCHANGED <<pm, cloneOf, writes, wr, rd, whole, tick, evars, lvars>>

\* MapOf(which).set(ns, newPartitions(_PARTITIONS, 1, false)); the changes
\* made once there is a clone are counted in writes
DoMapSet(which, ns) ==
  /\ \E f \in Handles : ~parts[f].live
  /\ which = 2 \/ len(newPm) > 0 => len(newPm) > 0 /\ writes < MaxWrites
  /\ writes' = IF len(newPm) > 0 THEN writes + 1 ELSE writes
  /\ LET h   == Min({f \in Handles : ~parts[f].live})
         res == newPartitions(mem, _PARTITIONS, 1, FALSE)
         m1  == IF which = 1 THEN set(pm, ns, h) ELSE pm
         m2  == IF which = 2 THEN set(newPm, ns, h) ELSE newPm
         gc  == Collect(Unmapped([parts EXCEPT ![h] = res.obj], m1, m2), res.mem)
     IN  /\ pm' = m1
         /\ newPm' = m2
         /\ parts' = gc.parts
         /\ mem' = gc.mem
  /\ op' = [NoOp EXCEPT !.name = "mapSet", !.k = which]
  /\ verr' = <<>>
  /\ UNCHANGED <<cloneOf, wr, rd, whole, tick, evars, lvars>>

DoMapDelete(which, ns) ==
  /\ MapOf(which)[ns] # 0
  /\ len(newPm) > 0
  /\ writes < MaxWrites
  /\ writes' = writes + 1
  /\ LET m1 == IF which = 1 THEN delete(pm, ns) ELSE pm
         m2 == IF which = 2 THEN delete(newPm, ns) ELSE newPm
         gc == Collect(Unmapped(parts, m1, m2), mem)
     IN  /\ pm' = m1
         /\ newPm' = m2
         /\ parts' = gc.parts
         /\ mem' = gc.mem
  /\ op' = [NoOp EXCEPT !.name = "mapDelete", !.k = which]
  /\ verr' = <<>>
  /\ UNCHANGED <<cloneOf, wr, rd, whole, tick, evars, lvars>>

\* a node or a regime written in the Partitions MapOf(which).get(ns) returns
DoMapWrite(which, ns, p, node, regime) ==
  /\ MapOf(which)[ns] # 0
  /\ writes < MaxWrites
  /\ LET obj == parts[MapOf(which)[ns]]
     IN  mem' = [mem EXCEPT ![obj.arr[1]][p] = node, ![obj.regimes][p] = regime]
  /\ writes' = writes + 1
  /\ op' = [NoOp EXCEPT !.name = "mapWrite", !.k = which]
  /\ verr' = <<>>
  /\ UNCHANGED <<parts, pm, cloneOf, tvars, lvars, evars>>

NextMapClone ==
  \/ \E order \in Orders({ns \in Namespaces : pm[ns] # 0}) : DoMapClone(order)
  \/ \E which \in {1, 2}, ns \in Namespaces : DoMapSet(which, ns)
  \/ \E which \in {1, 2}, ns \in Namespaces : DoMapDelete(which, ns)
  \/ \E which \in {1, 2}, ns \in Namespaces, p \in 1.._PARTITIONS :
       DoMapWrite(which, ns, p, "n1", 1)

SpecMapClone == Init /\ [][NextMapClone]_vars

\* C16: partitionMap.clone() returns a map with the namespaces of its source,
\* each holding another Partitions equal to the source's; and a later set,
\* delete or write made through one of the two maps changes neither the
\* namespaces of the other nor the Partitions it holds.
MapCloneIndependent ==
  [][/\ op'.name = "mapClone" =>
          /\ pm' = pm
          /\ \A ns \in Namespaces :
               IF pm[ns] = 0 THEN newPm'[ns] = 0
               ELSE /\ newPm'[ns] # 0
                    /\ \A ns2 \in Namespaces : newPm'[ns] # pm[ns2]
                    /\ View(parts', mem', newPm'[ns]) = View(parts, mem, pm[ns])
     /\ op'.name \in {"mapSet", "mapDelete", "mapWrite"} =>
          LET other == IF op'.k = 1 THEN newPm ELSE pm
          IN  /\ other = (IF op'.k = 1 THEN newPm' ELSE pm')
              /\ \A ns \in Namespaces :
                   other[ns] # 0 =>
                      View(parts', mem', other[ns]) = View(parts, mem, other[ns])]_vars

\* the clone and its source after they were changed apart
MapCloneDiverged ==
  /\ \E ns \in Namespaces :
       /\ pm[ns] # 0 /\ newPm[ns] # 0
       /\ View(parts, mem, pm[ns]) # View(parts, mem, newPm[ns])
  /\ \E ns \in Namespaces : pm[ns] = 0 /\ newPm[ns] # 0

\* C17: newNodeError(node, err) for a non-nil err returns a new error with
\* the node, with err's result code and in-doubt flag and with err as its
\* Unwrap(), and leaves err as it was.
NodeErrorCarriesErr ==
  [][eop'.name = "newNodeError" /\ eop'.b # 0 =>
       /\ eh[eop'.res].kind = "free"
       /\ eh'[eop'.res].Node \in Nodes
       /\ eh'[eop'.res].ResultCode = eh[eop'.b].ResultCode
       /\ eh'[eop'.res].InDoubt = eh[eop'.b].InDoubt
       /\ Unwrap(eh', eop'.res) = eop'.b
       /\ eh'[eop'.b] = eh[eop'.b]]_vars

(***************************************************************************)
(* SpecGrpc: a transport failure and what newGrpcError makes of it, and of *)
(* its own results.                                                        *)
(***************************************************************************)
\* what a gRPC call fails with: a variable of context or grpc, an error with
\* a status code, or ("") any other error
GrpcFailures ==
  {"context.DeadlineExceeded", "grpc.ErrClientConnTimeout", "grpc.ErrServerStopped", ""}
    \cup StatusCodes

GrpcMessages == {<<>>, <<Msg("grpc call failed", "", 0, 0)>>}

NextGrpc ==
  \/ \E kind \in GrpcFailures :
       /\ \A r \in Allocated(eh) : eh[r].kind # "foreign"
       /\ DoGrpcFailure(kind)
  \/ \E r \in (Allocated(eh) \ SentinelIds) \cup {0}, messages \in GrpcMessages :
       DoNewGrpcError(r, messages)

SpecGrpc == Init /\ [][NextGrpc]_vars

\* what the error r is for newGrpcError: "OK" for nil, the variable or status
\* code of a transport failure, "" for anything else
FailureOf(e, r) ==
  IF r = 0 THEN "OK" ELSE IF e[r].kind = "foreign" THEN e[r].grpc ELSE ""

\* the mapping of newGrpcError, for the call the step made
GrpcMapping ==
  eop'.name = "newGrpcError" =>
    LET r    == eop'.b
        res  == eop'.res
        k    == FailureOf(eh, r)
        code == eh'[res].ResultCode
    IN  IF r # 0 /\ IsError(eh, r) /\ eh[r].ResultCode = "GRPC_ERROR" THEN res = r
        ELSE /\ k = "OK" <=> res = 0
             /\ k \in {"context.DeadlineExceeded", "grpc.ErrClientConnTimeout",
                       "Canceled", "DeadlineExceeded"} => code = "TIMEOUT"
             /\ k \in {"grpc.ErrServerStopped", "NotFound", "Unimplemented",
                       "Unavailable"} => code = "SERVER_NOT_AVAILABLE"
             /\ k \in {"InvalidArgument", "FailedPrecondition", "OutOfRange"} =>
                  code = "PARAMETER_ERROR"
             /\ k = "DataLoss" => code = "NETWORK_ERROR"
             /\ k \in {"AlreadyExists", "Unknown", ""} =>
                  code = "GRPC_ERROR" /\ Unwrap(eh', res) = r

\* C18 as stated: newGrpcError maps by the table, and mapping its own result
\* again gives that result again.
GrpcMappingIdempotent ==
  [][/\ GrpcMapping
     /\ eop.name = "newGrpcError" /\ eop'.name = "newGrpcError" /\ eop'.b = eop.res =>
          IF eop.res = 0 THEN eop'.res = 0
          ELSE eh'[eop'.res].ResultCode = eh[eop.res].ResultCode]_vars

\* C18 as amended: newGrpcError maps by the table; mapping its own result
\* again gives that result again when it is nil or has code GRPC_ERROR, and a
\* new GRPC_ERROR error that wraps it otherwise.
GrpcMappingOnce ==
  [][/\ GrpcMapping
     /\ eop.name = "newGrpcError" /\ eop'.name = "newGrpcError" /\ eop'.b = eop.res =>
          IF eop.res = 0 \/ eh[eop.res].ResultCode = "GRPC_ERROR" THEN eop'.res = eop.res
          ELSE /\ eh[eop'.res].kind = "free"
               /\ eh'[eop'.res].ResultCode = "GRPC_ERROR"
               /\ Unwrap(eh', eop'.res) = eop.res]_vars

\* a TIMEOUT result of the mapping was mapped again
GrpcMappedTwice ==
  /\ eop.name = "newGrpcError"
  /\ eop.res # 0 /\ eop.b # 0
  /\ eh[eop.res].ResultCode = "GRPC_ERROR"
  /\ eh[eop.b].ResultCode = "TIMEOUT"
  /\ eh[eop.b].kind = "ae"

(***************************************************************************)
(* SpecIs: errors made from the constants, given a node and an in-doubt    *)
(* flag, and compared with Is.                                             *)
(***************************************************************************)
DoSetNode(r, node) ==
  /\ eh' = setNode(eh, r, node)
  /\ eop' = [NoErrOp EXCEPT !.name = "setNode", !.a = r, !.res = r]
  /\ UNCHANGED <<doubtBy, pvars, tvars, lvars>>

\* a.Is(t); x is what it returns
DoIs(a, t) ==
  /\ eop' = [NoErrOp EXCEPT !.name = "Is", !.a = a, !.b = t, !.x = Is(eh, a, t)]
  /\ UNCHANGED <<eh, doubtBy, pvars, tvars, lvars>>

\* the three causes a connection pool fails with
PoolSentinels ==
  {ErrConnectionPoolEmpty, ErrConnectionPoolExhausted, ErrTooManyOpeningConnections}

NextIs ==
  \/ \E c \in PoolSentinels \cup {ErrTimeout} : FewErrs /\ DoErr(c)
  \/ FewErrs /\ DoForeign(0)
  \/ \E r \in Mutable(eh) : DoSetNode(r, "n1")
  \/ \E r \in Mutable(eh) : DoMarkInDoubt(r, TRUE)
  \/ \E a \in Mutable(eh) \cup {0},
        t \in (Allocated(eh) \ SentinelIds) \cup PoolSentinels \cup {ErrTimeout, 0} :
       DoIs(a, t)

SpecIs == Init /\ [][NextIs]_vars

\* the constant the error r was made from by err()
MadeFrom(r, c) ==
  eh[r].kind = "ae" /\ eh[r].msg = Sentinels[c].msg /\ eh[r].ResultCode = Sentinels[c].ResultCode

\* C19: an error made from one of the three connection-pool constants Is that
\* constant and is not either of the other two.
PoolCausesDistinct ==
  eop.name = "Is" /\ eop.a # 0 =>
    \A X \in PoolSentinels :
       MadeFrom(eop.a, X) /\ eop.b \in PoolSentinels => (eop.x <=> eop.b = X)

\* C20: a.Is(t) is true exactly when a and t are not nil, t is an
\* AerospikeError or a constant, the result codes are equal, t's Node is nil
\* or a's Node, and a is in doubt if t is.
IsComparesCodeNodeDoubt ==
  eop.name = "Is" =>
    (eop.x <=> /\ eop.a # 0 /\ eop.b # 0
               /\ eh[eop.b].kind \in {"ae", "const"}
               /\ eh[eop.a].ResultCode = eh[eop.b].ResultCode
               /\ eh[eop.b].Node \in {NIL, eh[eop.a].Node}
               /\ eh[eop.b].InDoubt => eh[eop.a].InDoubt)

\* an Is that the node decided: same code, both in doubt, the target on a
\* node and the receiver on none
IsOtherNode ==
  /\ eop.name = "Is" /\ eop.a # 0 /\ eop.b # 0
  /\ ~eop.x
  /\ eh[eop.b].kind = "ae"
  /\ eh[eop.a].ResultCode = eh[eop.b].ResultCode
  /\ eh[eop.b].Node # NIL /\ eh[eop.a].Node = NIL
  /\ eh[eop.b].InDoubt /\ eh[eop.a].InDoubt

(***************************************************************************)
(* SpecRand: one Xor128Rand, seeded, stepped and read into slices.         *)
(***************************************************************************)
\* calls of Uint64 after which no further operation is started
MaxCalls == 3

\* the values rand.Uint64() seeds the generator with
Seeds == {Word({0}), Word({WordBits - 1}), Word({1, 33}), Word(BitIdx)}

\* the lengths of the slices handed to Read
SliceLens == {0, 7, 8, 9, 64, 72}

DoNewXorRand(s0, s1) ==
  /\ xr.name = "init"
  /\ xr' = [NoRand EXCEPT !.name = "NewXorRand", !.src = <<s0, s1>>]
  /\ UNCHANGED <<guard, hist, pvars, evars, tvars>>

DoUint64 ==
  /\ xr.name # "init" /\ xr.calls < MaxCalls
  /\ LET u == Uint64(xr.src)
     IN xr' = [xr EXCEPT !.name = "Uint64", !.src = u.src, !.res = u.res,
                         !.calls = @ + 1]
  /\ UNCHANGED <<guard, hist, pvars, evars, tvars>>

DoRead(n) ==
  /\ xr.name # "init" /\ xr.calls < MaxCalls
  /\ xr' = [Read(xr, n) EXCEPT !.name = "Read"]
  /\ UNCHANGED <<guard, hist, pvars, evars, tvars>>

NextRand ==
  \/ \E s0, s1 \in Seeds : DoNewXorRand(s0, s1)
  \/ DoUint64
  \/ \E n \in SliceLens : DoRead(n)

SpecRand == Init /\ [][NextRand]_vars

\* C21, as stated: Read(p) fills every byte of p and returns (len(p), nil),
\* for every slice length, without failing.
ReadFillsSlice ==
  xr.name = "Read" =>
    /\ ~xr.panicked
    /\ xr.n = Len(xr.p) /\ xr.err = "nil"
    /\ xr.written = 0..(Len(xr.p) - 1)

\* Read never writes outside p
ReadStaysInside ==
  xr.name = "Read" => xr.written \subseteq 0..(Len(xr.p) - 1)

\* a Read that returned normally and left bytes of p unwritten
ReadLeftBytes ==
  xr.name = "Read" /\ ~xr.panicked /\ xr.written # 0..(Len(xr.p) - 1)

\* a Read that panicked
ReadPanicked == xr.name = "Read" /\ xr.panicked

(***************************************************************************)
(* SpecGuard: one Guard, zero-valued or built by NewGuard, and callbacks   *)
(* that read and change the value they are passed.                         *)
(***************************************************************************)
\* what a callback leaves in a value it saw as v
Changes(v) == {v, IF v < MaxVal THEN v + 1 ELSE v, 0}

\* var grd Guard[T]  /  NewGuard(&T{...})
DoNewGuard(T, zero) ==
  /\ guard.name = "init"
  /\ guard' = IF zero
               THEN [NoGuard EXCEPT !.name = "NewGuard", !.T = T]
               ELSE [allocObj(NoGuard, 0) EXCEPT !.name = "NewGuard", !.T = T, !.val = 1]
  /\ UNCHANGED <<xr, hist, pvars, evars, tvars>>

DoGuardDo ==
  /\ guard.name # "init"
  /\ \E v \in (IF guard.val = 0 THEN {0} ELSE Changes(guard.objs[guard.val])) :
       guard' = [callPtr(guard, v) EXCEPT !.name = "Do"]
  /\ UNCHANGED <<xr, hist, pvars, evars, tvars>>

\* DoVal dereferences the stored pointer: it is used on a non-nil value
DoGuardDoVal ==
  /\ guard.name # "init" /\ guard.val # 0
  /\ \E v \in Changes(guard.objs[guard.val]) :
       guard' = [callVal(guard, v) EXCEPT !.name = "DoVal"]
  /\ UNCHANGED <<xr, hist, pvars, evars, tvars>>

DoGuardInitDo ==
  /\ guard.name # "init"
  /\ guard.val = 0 => FreeObj(guard) # 0
  /\ LET g == initOnce(guard, 1)
     IN \E v \in Changes(g.objs[g.val]) :
          guard' = [callPtr(g, v) EXCEPT !.name = "InitDo"]
  /\ UNCHANGED <<xr, hist, pvars, evars, tvars>>

DoGuardInitDoVal ==
  /\ guard.name # "init"
  /\ guard.val = 0 => FreeObj(guard) # 0
  /\ LET g == initOnce(guard, 1)
     IN \E v \in Changes(g.objs[g.val]) :
          guard' = [callVal(g, v) EXCEPT !.name = "InitDoVal"]
  /\ UNCHANGED <<xr, hist, pvars, evars, tvars>>

\* Update(func(s **T) { *s = &local })
DoGuardUpdate ==
  /\ guard.name # "init" /\ FreeObj(guard) # 0
  /\ guard' = [allocObj(guard, 2) EXCEPT !.name = "Update", !.val = FreeObj(guard),
                                         !.passed = guard.val, !.seen = -1]
  /\ UNCHANGED <<xr, hist, pvars, evars, tvars>>

NextGuard ==
  \/ \E T \in GuardTypes, zero \in BOOLEAN : DoNewGuard(T, zero)
  \/ DoGuardDo
  \/ DoGuardDoVal
  \/ DoGuardInitDo
  \/ DoGuardInitDoVal
  \/ DoGuardUpdate

SpecGuard == Init /\ [][NextGuard]_vars

\* the methods that call f with the stored value
GuardCalls == {"Do", "DoVal", "InitDo", "InitDoVal"}

\* C22: the initializer runs at most once, and only in an InitDo/InitDoVal
\* on a Guard that holds nil, whose callback is passed the fresh value; Do on
\* a Guard that holds nil passes nil; every other call passes the stored
\* reference with the value the earlier callbacks left in it; Update stores
\* a new reference, which the next call is then passed.
GuardInitOnce ==
  [][guard.name # "init" =>
      /\ guard'.inits <= 1
      /\ guard'.inits # guard.inits =>
            /\ guard.val = 0 /\ guard.inits = 0
            /\ guard'.name \in {"InitDo", "InitDoVal"}
            /\ guard.objs[guard'.passed] = -1 /\ guard'.seen = 1
            /\ guard'.val = guard'.passed
      /\ guard'.name \in GuardCalls /\ guard.val # 0 =>
            /\ guard'.passed = guard.val /\ guard'.seen = guard.objs[guard.val]
            /\ guard'.val = guard.val /\ guard'.inits = guard.inits
      /\ guard'.name = "Do" /\ guard.val = 0 => guard'.passed = 0 /\ guard'.val = 0
      /\ guard'.name = "Update" =>
            /\ guard'.val # guard.val /\ guard'.val # 0
            /\ guard.objs[guard'.val] = -1
            /\ guard'.inits = guard.inits
      /\ \A i \in ObjIds : i # guard'.val /\ guard.objs[i] # -1 =>
            guard'.objs[i] = guard.objs[i]
  ]_vars

\* a later InitDo was passed the value the first one had changed, after the
\* initializer had run once
GuardKeptMutation ==
  /\ guard.name = "InitDo" /\ guard.inits = 1
  /\ guard.seen = 2 /\ guard.passed = 1

(***************************************************************************)
(* SpecHistogram: one histogram, linear or exponential, filled and reset.  *)
(***************************************************************************)
DoNewHistogram(htype, base, buckets) ==
  /\ hist.name = "init"
  /\ hist' = newHistogram(htype, base, buckets)
  /\ UNCHANGED <<xr, guard, pvars, evars, tvars>>

DoAdd(v) ==
  /\ hist.name # "init" /\ hist.Count < MaxAdds
  /\ \E slot \in slots(hist, v) :
       hist' = [Add(hist, v, slot) EXCEPT !.added[v] = @ + 1]
  /\ UNCHANGED <<xr, guard, pvars, evars, tvars>>

DoReset ==
  /\ hist.name # "init"
  /\ hist' = [Reset(hist) EXCEPT !.added = [v \in Values |-> 0]]
  /\ UNCHANGED <<xr, guard, pvars, evars, tvars>>

NextHistogram ==
  \/ \E htype \in {"Linear", "Exponential"}, base \in 1..MaxBase, buckets \in 1..MaxBuckets :
       DoNewHistogram(htype, base, buckets)
  \/ \E v \in Values : DoAdd(v)
  \/ DoReset

SpecHistogram == Init /\ [][NextHistogram]_vars

RECURSIVE SumOver(_, _)
SumOver(f, S) ==
  IF S = {} THEN 0
  ELSE LET x == CHOOSE y \in S : TRUE IN f[x] + SumOver(f, S \ {x})

\* the values added since creation or the last Reset
Added == {v \in Values : hist.added[v] > 0}

\* floor(v / base) clamped to 0..n-1
ClampedFloor(v, base, n) ==
  LET q == v \div base
  IN IF q < 0 THEN 0 ELSE IF q > n - 1 THEN n - 1 ELSE q

\* C23: Count is the number of values added and the sum of the buckets, Min
\* and Max are the smallest and largest value added, and a linear histogram
\* counted each value in bucket floor(v / base) clamped to 0..len(Buckets)-1.
HistogramCounts ==
  hist.name # "init" =>
    /\ hist.Count = SumOver(hist.added, Values)
    /\ hist.Count = SumOver(hist.Buckets, DOMAIN hist.Buckets)
    /\ hist.Count > 0 =>
         /\ hist.Min \in Added /\ \A v \in Added : hist.Min <= v
         /\ hist.Max \in Added /\ \A v \in Added : v <= hist.Max
    /\ hist.htype = "Linear" =>
         \A b \in DOMAIN hist.Buckets :
           hist.Buckets[b] =
             SumOver(hist.added,
                     {v \in Values : ClampedFloor(v, hist.base, Len(hist.Buckets)) = b - 1})

\* a linear histogram of base 2 with a negative value clamped to the first
\* bucket, large values clamped to the last one, added after a larger
\* minimum
HistogramClamped ==
  /\ hist.name = "Add" /\ hist.htype = "Linear" /\ hist.base = 2
  /\ Len(hist.Buckets) = 2 /\ hist.Count = MaxAdds
  /\ hist.Min = 0 - 1 /\ hist.Max = 4
  /\ hist.added[0 - 1] = 1 /\ hist.added[3] = 1 /\ hist.added[4] = 1

(***************************************************************************)
(* SpecHeld: a command holds the *Partitions it got from the map while     *)
(* the map is set, deleted from and cleaned up.                            *)
(***************************************************************************)
\* forget every Partitions that neither the map, the command nor the tend
\* routine refers to
RECURSIVE ReleaseAll(_, _, _, _, _)
ReleaseAll(ps, pmap, r, w, h) ==
  IF h > MaxParts THEN ps
  ELSE ReleaseAll(Release(ps, pmap, r, w, h), pmap, r, w, h + 1)

\* pm.delete(ns) while a command may hold the Partitions
HeldDelete(ns) ==
  /\ pm[ns] # 0
  /\ LET pm2 == delete(pm, ns)
         ps2 == ReleaseAll(parts, pm2, rd, wr.h, 1)
         gc  == Collect(ps2, mem)
     IN  /\ pm' = pm2
         /\ parts' = gc.parts
         /\ mem' = gc.mem
         /\ whole' = [h \in Handles |-> IF ps2[h].live THEN whole[h] ELSE NIL]
  /\ op' = [NoOp EXCEPT !.name = "delete"]
  /\ verr' = <<>>
  /\ UNCHANGED <<cloneOf, writes, wr, rd, tick, newPm, evars, lvars>>

\* pm.cleanup() while a command may hold a Partitions of the map
HeldCleanup(order) ==
  /\ order # <<>>
  /\ LET res == cleanup([mem |-> mem, parts |-> parts, pm |-> pm], order)
         ps2 == ReleaseAll(res.parts, res.pm, rd, wr.h, 1)
         gc  == Collect(ps2, res.mem)
     IN  /\ pm' = res.pm
         /\ parts' = gc.parts
         /\ mem' = gc.mem
         /\ whole' = [h \in Handles |-> IF ps2[h].live THEN whole[h] ELSE NIL]
  /\ op' = [NoOp EXCEPT !.name = "cleanup"]
  /\ verr' = <<>>
  /\ UNCHANGED <<cloneOf, writes, wr, rd, tick, newPm, evars, lvars>>

NextHeld ==
  \/ TendBegin("test", 1)
  \/ \E p \in 1.._PARTITIONS : TendEditSlot(1, p, "n1")
  \/ TendPublish
  \/ ReaderGet("test")
  \/ HeldDelete("test")
  \/ \E order \in Orders({ns \in Namespaces : pm[ns] # 0}) : HeldCleanup(order)

SpecHeld == Init /\ [][NextHeld]_vars

\* C24, as stated: the Partitions a command got from the map keeps the grid
\* it was published with, whatever set, delete or cleanup do to the map
\* afterwards: every slot that held a node still holds that node.
HeldGridStable ==
  rd # 0 =>
    \A r \in DOMAIN whole[rd].Replicas, p \in 1.._PARTITIONS :
      whole[rd].Replicas[r][p] # NIL =>
        /\ r <= parts[rd].len
        /\ mem[parts[rd].arr[r]][p] = whole[rd].Replicas[r][p]

\* set and delete leave the held Partitions as it was
SetDeleteKeepHeld ==
  [][op'.name \in {"set", "delete"} /\ rd # 0 /\ rd' = rd =>
       View(parts', mem', rd) = View(parts, mem, rd)]_vars

\* a held Partitions with an assigned node that cleanup has released
HeldGridReleased ==
  /\ rd # 0 /\ op.name = "cleanup"
  /\ parts[rd].len = 0
  /\ \E p \in 1.._PARTITIONS : whole[rd].Replicas[1][p] # NIL

(***************************************************************************)
(* SpecGrid: a Partitions made for any partition count, then resized and   *)
(* cloned.                                                                 *)
(***************************************************************************)
NextGrid ==
  \/ \E n \in PartitionCounts, r \in 0..MaxReplicas, sc \in BOOLEAN :
       ~parts[1].live /\ DoNewPartitions(1, n, r, sc)
  \/ \E h \in {1, 2}, k \in 0..MaxReplicas : DoSetReplicaCount(h, k)
  \/ \E src \in {1, 2}, dst \in {1, 2} : DoClone(src, dst)

SpecGrid == Init /\ [][NextGrid]_vars

\* C25, as stated: after newPartitions(n, r, sc) and any setReplicaCount and
\* clone calls, every replica row has the length of regimes, which is n.
GridRowsKeepLength ==
  \A h \in Handles :
    parts[h].live =>
      \A r \in 1..parts[h].len :
        Len(mem[parts[h].arr[r]]) = Len(mem[parts[h].regimes])

\* regimes is never resized: setReplicaCount keeps it, clone copies it
RegimesKeepLength ==
  [][/\ op'.name = "setReplicaCount" =>
          Len(mem'[parts'[op'.h].regimes]) = Len(mem[parts[op'.h].regimes])
     /\ op'.name = "clone" =>
          Len(mem'[parts'[op'.h].regimes]) = Len(mem[parts[op'.k].regimes])]_vars

\* a clone of a grid whose rows have two different lengths
GridRowsDiffer ==
  /\ op.name = "clone" /\ parts[op.h].len = 2
  /\ Len(mem[parts[op.h].arr[1]]) # Len(mem[parts[op.h].arr[2]])

(***************************************************************************)
(* SpecDrop: chainErrors called with an outer error that already wraps     *)
(* one.                                                                    *)
(***************************************************************************)
\* chainErrors(outer, inner) with both non-nil
DoChainOnto(outer, inner) ==
  /\ outer # 0 /\ inner # 0
  /\ FreeErrIds(eh) # {}
  /\ LET res == chainErrors(eh, outer, inner)
     IN  /\ eh' = res.eh
         /\ eop' = [NoErrOp EXCEPT !.name = "chainErrors", !.a = outer, !.b = inner,
                                   !.res = res.ref]
         /\ doubtBy' = [doubtBy EXCEPT ![res.ref] = doubtBy[outer]]
  /\ UNCHANGED <<pvars, tvars, lvars>>

NextDrop ==
  \/ \E c \in {ErrInvalidPartitionMap, ErrTimeout} : DoErr(c)
  \/ \E inner \in Wrappable(eh), code \in NewCodes : DoNewErrorAndWrap(inner, code)
  \/ \E outer \in Errors(eh) \ SentinelIds, inner \in Wrappable(eh) : DoChainOnto(outer, inner)

SpecDrop == Init /\ [][NextDrop]_vars

\* C26, as stated: for non-nil outer and inner, the result of chainErrors
\* Matches every code outer Matches, the codes of the errors outer already
\* wraps included, and every code inner Matches, and outer is unchanged.
ChainErrorsKeepsAll ==
  [][eop'.name = "chainErrors" /\ eop'.a # 0 /\ eop'.b # 0 =>
       /\ eh'[eop'.a] = eh[eop'.a]
       /\ \A c \in Codes :
            \/ Matches(eh, eop'.a, {c})
            \/ IsError(eh, eop'.b) /\ Matches(eh, eop'.b, {c})
            => Matches(eh', eop'.res, {c})]_vars

\* the part that holds: outer is unchanged, and the result Matches outer's
\* own code and every code inner Matches
ChainErrorsKeepsOwn ==
  [][eop'.name = "chainErrors" /\ eop'.a # 0 /\ eop'.b # 0 =>
       /\ eh'[eop'.a] = eh[eop'.a]
       /\ \A c \in Codes :
            \/ c = eh[eop'.a].ResultCode
            \/ IsError(eh, eop'.b) /\ Matches(eh, eop'.b, {c})
            => Matches(eh', eop'.res, {c})]_vars

\* a chainErrors whose outer wrapped an error with a code the result has lost
ChainDroppedWrapped ==
  /\ eop.name = "chainErrors" /\ eop.a # 0 /\ eop.b # 0
  /\ eh[eop.a].wrapped # 0
  /\ \E c \in Codes : Matches(eh, eop.a, {c}) /\ ~Matches(eh, eop.res, {c})

(***************************************************************************)
(* SpecStatus: newGrpcStatusError over the statuses a response can carry.  *)
(***************************************************************************)
\* the statuses of the responses: every client code down to one below the
\* lowest case of the switch, and some server codes
GrpcStatuses == (0 - 17)..2

\* newGrpcStatusError(res) for a response with this status and in-doubt flag
DoGrpcStatus(status, inDoubt) ==
  /\ DoubtRoom
  /\ LET res == newGrpcStatusError(eh, status, inDoubt)
     IN  /\ eh' = res.eh
         /\ doubtBy' = [doubtBy EXCEPT ![res.ref] = IF inDoubt THEN "grpc" ELSE "none"]
         /\ eop' = [NoErrOp EXCEPT !.name = "newGrpcStatusError", !.b = status,
                                   !.res = res.ref, !.x = inDoubt]
  /\ UNCHANGED <<pvars, tvars, lvars>>

NextStatus ==
  \E status \in GrpcStatuses, inDoubt \in BOOLEAN : DoGrpcStatus(status, inDoubt)

SpecStatus == Init /\ [][NextStatus]_vars

\* C27, as stated: the error of newGrpcStatusError has result code OK only
\* for status 0, a non-negative status is passed through as the result
\* code, and the error's in-doubt flag is the response's.
GrpcStatusOkOnlyForZero ==
  eop.name = "newGrpcStatusError" =>
    /\ eh[eop.res].ResultCode = "OK" => eop.b = 0
    /\ eop.b >= 0 => eh[eop.res].ResultCode = ServerResultCode(eop.b)
    /\ eh[eop.res].InDoubt = eop.x

\* the part that holds: pass-through of non-negative statuses and the
\* in-doubt flag
GrpcStatusPassThrough ==
  eop.name = "newGrpcStatusError" =>
    /\ eop.b >= 0 => eh[eop.res].ResultCode = ServerResultCode(eop.b)
    /\ eh[eop.res].InDoubt = eop.x

\* an in-doubt response with a negative status gave an error with code OK
GrpcStatusNegativeOk ==
  /\ eop.name = "newGrpcStatusError" /\ eop.b < 0 /\ eop.x
  /\ eh[eop.res].ResultCode = "OK" /\ eh[eop.res].InDoubt

====
